---- MODULE Spec2Model ----
(***************************************************************************)
(* Verification model of the geospatial_nlp address-resolution package.   *)
(*                                                                         *)
(* Representation.  A Python str is a sequence of one-character strings,   *)
(* so substring search, prefixes, case folding and digit tests are         *)
(* computed, not assumed.  Where the code only tests truthiness, None and  *)
(* "" are both the empty sequence.  Coordinates are integers in units of   *)
(* 1e-4 degree, uncertainty radii in units of 0.1 km, scores in units of   *)
(* 1e-6 and score weights in units of 0.01.  Labels the code never         *)
(* inspects (source, precision, pc values) are TLA+ strings.               *)
(***************************************************************************)
EXTENDS Integers, Sequences, FiniteSets, TLC

VARIABLES
  geopy_available,      \* geocoder.py GEOPY_AVAILABLE (import succeeded or not)
  g_pc,                 \* "new" | "idle" | "api" | "returned": position of the geocoder client
  g_use_external_api,   \* ContextualGeocoder.use_external_api
  g_nominatim,          \* ContextualGeocoder._nominatim is not None
  g_req,                \* arguments of the current / last geocode call
  g_out,                \* result of the last completed geocode call
  g_raised,             \* the last geocode call ended with an exception
  g_outcome,            \* what the external service answered in the last call
  g_apiCalls,           \* invocations of the external service in the last call
  g_prev,               \* source and uncertainty of the result the caller took last
  dl_file,              \* landmarks.csv as the DataLoader finds it on disk
  dl_cache,             \* DataLoader._landmarks_cache (None or a list)
  dl_by_city,           \* DataLoader._landmarks_by_city
  dl_by_type,           \* DataLoader._landmarks_by_type
  dl_t,                 \* per thread: the DataLoader call it is in and its locals
  st_available,         \* landmark_matcher.py SENTENCE_TRANSFORMERS_AVAILABLE
  m_file,               \* landmarks.csv as a LandmarkMatcher finds it on disk
  m_global,             \* landmark_matcher.py _global_matcher: 0 for None, else an instance
  m_built,              \* LandmarkMatcher instances constructed so far
  m_embedded,           \* runs of _build_embeddings that encoded the landmarks so far
  p_initialized,        \* AddressPipeline._initialized of the shared pipeline
  m_t,                  \* per thread: the matcher call it is in and its locals
  ref_files,            \* per reference-data source: the file as found on disk
  ref_cached,           \* per JSON source: the lru_cache entry of its loader
  ref_result,           \* outcome of the last reference-data load
  s_pc,                 \* "idle" | "returned": position of the scorer's caller
  s_call,               \* which scorer was called, and with what
  s_out,                \* what the call returned, or that it raised
  pa_pc,                \* "idle" | "returned": position of process_address's caller
  pa_address,           \* raw_address of the current / last process_address call
  pa_out,               \* what the call returned, or that it raised
  fn_pc,                \* "idle" | "returned": position of the caller of a stateless function
  fn_call,              \* the function called and its arguments
  fn_out                \* what the call returned

geoVars == << geopy_available, g_pc, g_use_external_api, g_nominatim, g_req, g_out,
              g_raised, g_outcome, g_apiCalls, g_prev >>

loaderVars == << dl_file, dl_cache, dl_by_city, dl_by_type, dl_t >>

matcherVars == << st_available, m_file, m_global, m_built, m_embedded, p_initialized,
                  m_t >>

refVars == << ref_files, ref_cached, ref_result >>

scoreVars == << s_pc, s_call, s_out >>

procVars == << pa_pc, pa_address, pa_out >>

fnVars == << fn_pc, fn_call, fn_out >>

vars == << geoVars, loaderVars, matcherVars, refVars, scoreVars, procVars, fnVars >>

\* the variables each subsystem leaves alone
notGeoVars == << loaderVars, matcherVars, refVars, scoreVars, procVars, fnVars >>

notLoaderVars == << geoVars, matcherVars, refVars, scoreVars, procVars, fnVars >>

notMatcherVars == << geoVars, loaderVars, refVars, scoreVars, procVars, fnVars >>

notRefVars == << geoVars, loaderVars, matcherVars, scoreVars, procVars, fnVars >>

notScoreVars == << geoVars, loaderVars, matcherVars, refVars, procVars, fnVars >>

notProcVars == << geoVars, loaderVars, matcherVars, refVars, scoreVars, fnVars >>

notFnVars == << geoVars, loaderVars, matcherVars, refVars, scoreVars, procVars >>

(***************************************************************************)
(* Values after construction                                               *)
(***************************************************************************)
\* number of threads that share the DataLoader / the module-level matcher
NumThreads == 2

Threads == 1..NumThreads

\* a Python dict is a function from its keys; {} is the function with no keys
EmptyDict == << >>

\* an Optional[list]: None, or the list
NoneList == [none |-> TRUE, list |-> << >>]

NoFile == [exists |-> FALSE, readable |-> FALSE, rows |-> << >>]

NoLandmark == [name |-> << >>, type |-> << >>, latitude |-> 0, longitude |-> 0,
               city |-> << >>]

\* a thread that is in no DataLoader call
IdleThread ==
  [pc |-> "idle", op |-> "none", reload |-> FALSE, name |-> << >>, city |-> << >>,
   ltype |-> << >>, stack |-> << >>, row |-> 0, lm |-> NoLandmark, val |-> << >>,
   obs |-> << >>]

\* DataLoader.__init__
DataLoaderInit ==
  /\ dl_cache = NoneList
  /\ dl_by_city = EmptyDict
  /\ dl_by_type = EmptyDict
  /\ dl_t = [t \in Threads |-> IdleThread]

LoaderAtRest == dl_file = NoFile /\ DataLoaderInit

\* a thread that is in no matcher call
IdleCaller == [pc |-> "idle", op |-> "none", inst |-> 0, used |-> 0, stack |-> << >>,
               phrases |-> 0]

\* module import of landmark_matcher.py and AddressPipeline.__init__ without preload
MatcherInit ==
  /\ m_global = 0
  /\ m_built = 0
  /\ m_embedded = 0
  /\ p_initialized = FALSE
  /\ m_t = [t \in Threads |-> IdleCaller]

MatcherAtRest == st_available = FALSE /\ m_file = NoFile /\ MatcherInit

RefSources == {"pincode_centroids", "indian_states", "landmark_patterns", "landmarks_csv"}

NoLoad == [source |-> "none", raised |-> FALSE, table |-> << >>]

NoEntry == [hit |-> FALSE, value |-> << >>]

\* nothing loaded yet: every lru_cache is empty
RefInit ==
  /\ ref_cached = [src \in RefSources |-> NoEntry]
  /\ ref_result = NoLoad

RefAtRest == ref_files = [src \in RefSources |-> "missing"] /\ RefInit

\* None where the code tells it from ""
PyNone == << "None" >>

\* the dict AddressNormalizer.normalize returns, as far as the scorer reads it
Normalized(pincode, city, state, original) ==
  [pincode |-> pincode, city |-> city, state |-> state, original |-> original]

NoFeatures ==
  [has_distance |-> FALSE, distance_m |-> 0, directions |-> 0, landmarks |-> 0,
   street_numbers |-> 0, building_numbers |-> 0]

NoCall ==
  [scorer |-> "none", normalized |-> Normalized(PyNone, PyNone, PyNone, << >>),
   landmarks |-> << >>, source |-> "none", nlp_conf |-> 0, landmark_scores |-> << >>,
   geo_features |-> NoFeatures, density_score |-> 0]

NoScore == [raised |-> FALSE, score |-> 0, final |-> 0, level |-> "none",
            adjustments |-> << >>]

\* no scorer has been called
ScoreAtRest == s_pc = "idle" /\ s_call = NoCall /\ s_out = NoScore

NoOutput ==
  [raised |-> FALSE, normalized_address |-> << >>, pincode |-> PyNone, state |-> PyNone,
   city |-> PyNone, landmarks |-> << >>, coordinates |-> << 0, 0 >>,
   geo_source |-> "none", confidence |-> NoScore]

\* process_address has not been called
ProcessAtRest == pa_pc = "idle" /\ pa_address = << >> /\ pa_out = NoOutput

\* no stateless function has been called
FnAtRest == fn_pc = "idle" /\ fn_call = << >> /\ fn_out = << >>

(***************************************************************************)
(* str helpers                                                             *)
(***************************************************************************)
UpperToLower ==
  "A" :> "a" @@ "B" :> "b" @@ "C" :> "c" @@ "D" :> "d" @@ "E" :> "e" @@ "F" :> "f" @@
  "G" :> "g" @@ "H" :> "h" @@ "I" :> "i" @@ "J" :> "j" @@ "K" :> "k" @@ "L" :> "l" @@
  "M" :> "m" @@ "N" :> "n" @@ "O" :> "o" @@ "P" :> "p" @@ "Q" :> "q" @@ "R" :> "r" @@
  "S" :> "s" @@ "T" :> "t" @@ "U" :> "u" @@ "V" :> "v" @@ "W" :> "w" @@ "X" :> "x" @@
  "Y" :> "y" @@ "Z" :> "z"

LowerToUpper ==
  "a" :> "A" @@ "b" :> "B" @@ "c" :> "C" @@ "d" :> "D" @@ "e" :> "E" @@ "f" :> "F" @@
  "g" :> "G" @@ "h" :> "H" @@ "i" :> "I" @@ "j" :> "J" @@ "k" :> "K" @@ "l" :> "L" @@
  "m" :> "M" @@ "n" :> "N" @@ "o" :> "O" @@ "p" :> "P" @@ "q" :> "Q" @@ "r" :> "R" @@
  "s" :> "S" @@ "t" :> "T" @@ "u" :> "U" @@ "v" :> "V" @@ "w" :> "W" @@ "x" :> "X" @@
  "y" :> "Y" @@ "z" :> "Z"

Digits == {"0", "1", "2", "3", "4", "5", "6", "7", "8", "9"}

\* the characters the regex class \s matches, among those the inputs use
Whitespace == {" ", "\t", "\n"}

\* str.lower()
Lower(s) == [i \in 1..Len(s) |-> IF s[i] \in DOMAIN UpperToLower THEN UpperToLower[s[i]] ELSE s[i]]

\* str.upper()
Upper(s) == [i \in 1..Len(s) |-> IF s[i] \in DOMAIN LowerToUpper THEN LowerToUpper[s[i]] ELSE s[i]]

\* str.strip()
Strip(s) ==
  LET keep == {i \in 1..Len(s) : s[i] \notin Whitespace}
      Lo == CHOOSE i \in keep : \A j \in keep : i <= j
      Hi == CHOOSE i \in keep : \A j \in keep : j <= i
  IN IF keep = {} THEN << >> ELSE SubSeq(s, Lo, Hi)

\* sub in text
Contains(text, sub) ==
  \E i \in 1..(Len(text) - Len(sub) + 1) :
     \A j \in 1..Len(sub) : text[i + j - 1] = sub[j]

\* s.startswith(p)
StartsWith(s, p) == Len(p) <= Len(s) /\ \A j \in 1..Len(p) : s[j] = p[j]

\* index of the first element of seq satisfying P, 0 when there is none
\* (a for-loop over a list or an insertion-ordered dict that returns at the first hit)
FirstIndex(seq, P(_)) ==
  LET hits == {i \in 1..Len(seq) : P(seq[i])}
  IN IF hits = {} THEN 0 ELSE CHOOSE i \in hits : \A j \in hits : i <= j

RECURSIVE RemoveChars(_, _)
\* re.sub(r'[...]', '', s) for a character class
RemoveChars(s, class) ==
  IF s = << >> THEN << >>
  ELSE IF Head(s) \in class THEN RemoveChars(Tail(s), class)
       ELSE << Head(s) >> \o RemoveChars(Tail(s), class)

(***************************************************************************)
(* utils.py                                                                *)
(***************************************************************************)
\* a bounds check that forgets the longitude
is_within_india_lat_only(lat, lon) == 60000 <= lat /\ lat <= 360000

\* is_within_india: 6.0 <= lat <= 36.0 and 68.0 <= lon <= 98.0
is_within_india(lat, lon) == 60000 <= lat /\ lat <= 360000 /\ 680000 <= lon /\ lon <= 980000

\* validate_pincode: falsy -> False; drop spaces and hyphens; ^[1-9]\d{5}$
validate_pincode(pincode) ==
  IF pincode = << >> THEN FALSE
  ELSE LET p == RemoveChars(pincode, Whitespace \cup {"-"})
       IN /\ Len(p) = 6
          /\ p[1] \in Digits \ {"0"}
          /\ \A i \in 2..6 : p[i] \in Digits

MAJOR_CITY_COORDS ==
  << [name |-> <<"m","u","m","b","a","i">>, lat |-> 190760, lon |-> 728777],
     [name |-> <<"d","e","l","h","i">>, lat |-> 286139, lon |-> 772090],
     [name |-> <<"n","e","w"," ","d","e","l","h","i">>, lat |-> 286139, lon |-> 772090],
     [name |-> <<"b","e","n","g","a","l","u","r","u">>, lat |-> 129716, lon |-> 775946],
     [name |-> <<"b","a","n","g","a","l","o","r","e">>, lat |-> 129716, lon |-> 775946],
     [name |-> <<"c","h","e","n","n","a","i">>, lat |-> 130827, lon |-> 802707],
     [name |-> <<"k","o","l","k","a","t","a">>, lat |-> 225726, lon |-> 883639],
     [name |-> <<"h","y","d","e","r","a","b","a","d">>, lat |-> 173850, lon |-> 784867],
     [name |-> <<"p","u","n","e">>, lat |-> 185204, lon |-> 738567],
     [name |-> <<"a","h","m","e","d","a","b","a","d">>, lat |-> 230225, lon |-> 725714],
     [name |-> <<"s","u","r","a","t">>, lat |-> 211702, lon |-> 728311],
     [name |-> <<"j","a","i","p","u","r">>, lat |-> 269124, lon |-> 757873],
     [name |-> <<"l","u","c","k","n","o","w">>, lat |-> 268467, lon |-> 809462],
     [name |-> <<"k","a","n","p","u","r">>, lat |-> 264499, lon |-> 803319],
     [name |-> <<"n","a","g","p","u","r">>, lat |-> 211458, lon |-> 790882],
     [name |-> <<"i","n","d","o","r","e">>, lat |-> 227196, lon |-> 758577],
     [name |-> <<"t","h","a","n","e">>, lat |-> 192183, lon |-> 729781],
     [name |-> <<"b","h","o","p","a","l">>, lat |-> 232599, lon |-> 774126],
     [name |-> <<"v","i","s","a","k","h","a","p","a","t","n","a","m">>, lat |-> 176868, lon |-> 832185],
     [name |-> <<"p","a","t","n","a">>, lat |-> 255941, lon |-> 851376],
     [name |-> <<"v","a","d","o","d","a","r","a">>, lat |-> 223072, lon |-> 731812],
     [name |-> <<"g","h","a","z","i","a","b","a","d">>, lat |-> 286692, lon |-> 774538],
     [name |-> <<"l","u","d","h","i","a","n","a">>, lat |-> 309010, lon |-> 758573],
     [name |-> <<"a","g","r","a">>, lat |-> 271767, lon |-> 780081],
     [name |-> <<"n","a","s","h","i","k">>, lat |-> 199975, lon |-> 737898],
     [name |-> <<"v","a","r","a","n","a","s","i">>, lat |-> 253176, lon |-> 829739],
     [name |-> <<"c","h","a","n","d","i","g","a","r","h">>, lat |-> 307333, lon |-> 767794],
     [name |-> <<"g","u","r","u","g","r","a","m">>, lat |-> 284595, lon |-> 770266],
     [name |-> <<"g","u","r","g","a","o","n">>, lat |-> 284595, lon |-> 770266],
     [name |-> <<"n","o","i","d","a">>, lat |-> 285355, lon |-> 773910],
     [name |-> <<"c","o","i","m","b","a","t","o","r","e">>, lat |-> 110168, lon |-> 769558],
     [name |-> <<"k","o","c","h","i">>, lat |-> 99312, lon |-> 762673],
     [name |-> <<"t","h","i","r","u","v","a","n","a","n","t","h","a","p","u","r","a","m">>, lat |-> 85241, lon |-> 769366],
     [name |-> <<"m","y","s","u","r","u">>, lat |-> 122958, lon |-> 766394],
     [name |-> <<"m","y","s","o","r","e">>, lat |-> 122958, lon |-> 766394],
     [name |-> <<"m","a","n","g","a","l","u","r","u">>, lat |-> 129141, lon |-> 748560],
     [name |-> <<"m","a","n","g","a","l","o","r","e">>, lat |-> 129141, lon |-> 748560],
     [name |-> <<"v","i","j","a","y","a","w","a","d","a">>, lat |-> 165062, lon |-> 806480],
     [name |-> <<"j","o","d","h","p","u","r">>, lat |-> 262389, lon |-> 730243],
     [name |-> <<"u","d","a","i","p","u","r">>, lat |-> 245854, lon |-> 737125],
     [name |-> <<"a","m","r","i","t","s","a","r">>, lat |-> 316340, lon |-> 748723],
     [name |-> <<"g","u","w","a","h","a","t","i">>, lat |-> 261445, lon |-> 917362],
     [name |-> <<"b","h","u","b","a","n","e","s","w","a","r">>, lat |-> 202961, lon |-> 858245],
     [name |-> <<"r","a","n","c","h","i">>, lat |-> 233441, lon |-> 853096],
     [name |-> <<"d","e","h","r","a","d","u","n">>, lat |-> 303165, lon |-> 780322],
     [name |-> <<"s","h","i","m","l","a">>, lat |-> 311048, lon |-> 771734] >>

STATE_CENTROIDS ==
  << [code |-> <<"M","H">>, lat |-> 196633, lon |-> 753003],
     [code |-> <<"D","L">>, lat |-> 286139, lon |-> 772090],
     [code |-> <<"K","A">>, lat |-> 153173, lon |-> 757139],
     [code |-> <<"T","N">>, lat |-> 111271, lon |-> 786569],
     [code |-> <<"U","P">>, lat |-> 271303, lon |-> 808597],
     [code |-> <<"G","J">>, lat |-> 222587, lon |-> 711924],
     [code |-> <<"R","J">>, lat |-> 270238, lon |-> 742179],
     [code |-> <<"W","B">>, lat |-> 229868, lon |-> 878550],
     [code |-> <<"A","P">>, lat |-> 159129, lon |-> 797400],
     [code |-> <<"T","S">>, lat |-> 181124, lon |-> 790193],
     [code |-> <<"K","L">>, lat |-> 108505, lon |-> 762711],
     [code |-> <<"M","P">>, lat |-> 234733, lon |-> 779479],
     [code |-> <<"B","R">>, lat |-> 250961, lon |-> 853131],
     [code |-> <<"P","B">>, lat |-> 311471, lon |-> 753412],
     [code |-> <<"H","R">>, lat |-> 290588, lon |-> 760856],
     [code |-> <<"O","R">>, lat |-> 209517, lon |-> 850985],
     [code |-> <<"J","H">>, lat |-> 236102, lon |-> 852799],
     [code |-> <<"C","G">>, lat |-> 212787, lon |-> 818661],
     [code |-> <<"U","K">>, lat |-> 300668, lon |-> 790193],
     [code |-> <<"H","P">>, lat |-> 311048, lon |-> 771734],
     [code |-> <<"A","S">>, lat |-> 262006, lon |-> 929376],
     [code |-> <<"G","A">>, lat |-> 152993, lon |-> 741240] >>

FallbackStates ==
  << [code |-> <<"M","H">>, name |-> <<"M","a","h","a","r","a","s","h","t","r","a">>,
      aliases |-> << <<"m","h">>, <<"m","a","h","a">>, <<"m","a","h","a","r","a","s","h","t","r","a">> >>],
     [code |-> <<"D","L">>, name |-> <<"D","e","l","h","i">>,
      aliases |-> << <<"d","l">>, <<"d","e","l","h","i">>, <<"n","e","w"," ","d","e","l","h","i">>, <<"n","c","r">> >>],
     [code |-> <<"K","A">>, name |-> <<"K","a","r","n","a","t","a","k","a">>,
      aliases |-> << <<"k","a">>, <<"k","a","r","n","a","t","a","k","a">>, <<"k","t","k">> >>],
     [code |-> <<"T","N">>, name |-> <<"T","a","m","i","l"," ","N","a","d","u">>,
      aliases |-> << <<"t","n">>, <<"t","a","m","i","l","n","a","d","u">>, <<"t","a","m","i","l"," ","n","a","d","u">> >>],
     [code |-> <<"U","P">>, name |-> <<"U","t","t","a","r"," ","P","r","a","d","e","s","h">>,
      aliases |-> << <<"u","p">>, <<"u","t","t","a","r"," ","p","r","a","d","e","s","h">> >>],
     [code |-> <<"G","J">>, name |-> <<"G","u","j","a","r","a","t">>,
      aliases |-> << <<"g","j">>, <<"g","u","j","a","r","a","t">>, <<"g","u","j">> >>],
     [code |-> <<"R","J">>, name |-> <<"R","a","j","a","s","t","h","a","n">>,
      aliases |-> << <<"r","j">>, <<"r","a","j","a","s","t","h","a","n">>, <<"r","a","j">> >>],
     [code |-> <<"W","B">>, name |-> <<"W","e","s","t"," ","B","e","n","g","a","l">>,
      aliases |-> << <<"w","b">>, <<"w","e","s","t"," ","b","e","n","g","a","l">>, <<"b","e","n","g","a","l">> >>],
     [code |-> <<"A","P">>, name |-> <<"A","n","d","h","r","a"," ","P","r","a","d","e","s","h">>,
      aliases |-> << <<"a","p">>, <<"a","n","d","h","r","a">>, <<"a","n","d","h","r","a"," ","p","r","a","d","e","s","h">> >>],
     [code |-> <<"T","S">>, name |-> <<"T","e","l","a","n","g","a","n","a">>,
      aliases |-> << <<"t","s">>, <<"t","e","l","a","n","g","a","n","a">>, <<"t","g">> >>],
     [code |-> <<"K","L">>, name |-> <<"K","e","r","a","l","a">>,
      aliases |-> << <<"k","l">>, <<"k","e","r","a","l","a">> >>],
     [code |-> <<"M","P">>, name |-> <<"M","a","d","h","y","a"," ","P","r","a","d","e","s","h">>,
      aliases |-> << <<"m","p">>, <<"m","a","d","h","y","a"," ","p","r","a","d","e","s","h">> >>],
     [code |-> <<"B","R">>, name |-> <<"B","i","h","a","r">>,
      aliases |-> << <<"b","r">>, <<"b","i","h","a","r">> >>],
     [code |-> <<"P","B">>, name |-> <<"P","u","n","j","a","b">>,
      aliases |-> << <<"p","b">>, <<"p","u","n","j","a","b">> >>],
     [code |-> <<"H","R">>, name |-> <<"H","a","r","y","a","n","a">>,
      aliases |-> << <<"h","r">>, <<"h","a","r","y","a","n","a">> >>] >>

FallbackPincodes ==
  << [pincode |-> <<"4","0","0","0","0","1">>, lat |-> 189398, lon |-> 728354],
     [pincode |-> <<"4","0","0","0","6","9">>, lat |-> 191136, lon |-> 728697],
     [pincode |-> <<"4","0","0","0","2","8">>, lat |-> 190178, lon |-> 728478],
     [pincode |-> <<"1","1","0","0","0","1">>, lat |-> 286358, lon |-> 772245],
     [pincode |-> <<"1","1","0","0","2","0">>, lat |-> 285672, lon |-> 772100],
     [pincode |-> <<"5","6","0","0","0","1">>, lat |-> 129767, lon |-> 775713],
     [pincode |-> <<"5","6","0","0","3","4">>, lat |-> 129352, lon |-> 776245],
     [pincode |-> <<"6","0","0","0","0","1">>, lat |-> 130878, lon |-> 802785],
     [pincode |-> <<"5","0","0","0","0","1">>, lat |-> 173850, lon |-> 784867],
     [pincode |-> <<"7","0","0","0","0","1">>, lat |-> 225726, lon |-> 883639],
     [pincode |-> <<"4","1","1","0","0","1">>, lat |-> 185204, lon |-> 738567] >>

(***************************************************************************)
(* geocoder.py                                                             *)
(***************************************************************************)
\* Optional[GeoResult] = None
NoneResult ==
  [latitude |-> 0, longitude |-> 0, source |-> "None", precision |-> "None",
   uncertainty_km |-> 0]

GeoResult(lat, lon, source, precision, uncertainty) ==
  [latitude |-> lat, longitude |-> lon, source |-> source, precision |-> precision,
   uncertainty_km |-> uncertainty]

\* self._pincode_coords / self._states as loaded when the data files are absent
pincode_coords == FallbackPincodes
states == FallbackStates

\* _geocode_by_pincode: exact hit, else the first table entry sharing the 3-digit prefix
geocode_by_pincode(pincode) ==
  LET exact == FirstIndex(pincode_coords, LAMBDA e : e.pincode = pincode)
      prefix == SubSeq(pincode, 1, 3)
      pre == FirstIndex(pincode_coords, LAMBDA e : StartsWith(e.pincode, prefix))
  IN IF exact # 0
       THEN GeoResult(pincode_coords[exact].lat, pincode_coords[exact].lon,
                      "pincode", "locality", 50)
     ELSE IF Len(pincode) >= 3 /\ pre # 0
       THEN GeoResult(pincode_coords[pre].lat, pincode_coords[pre].lon,
                      "pincode_prefix", "city", 200)
     ELSE NoneResult

\* _geocode_by_city
geocode_by_city(city) ==
  LET city_lower == Strip(Lower(city))
      k == FirstIndex(MAJOR_CITY_COORDS, LAMBDA e : e.name = city_lower)
  IN IF k # 0
       THEN GeoResult(MAJOR_CITY_COORDS[k].lat, MAJOR_CITY_COORDS[k].lon, "city", "city", 150)
     ELSE NoneResult

\* _geocode_by_state
geocode_by_state(state_code) ==
  LET code == Upper(state_code)
      k == FirstIndex(STATE_CENTROIDS, LAMBDA e : e.code = code)
  IN IF k # 0
       THEN GeoResult(STATE_CENTROIDS[k].lat, STATE_CENTROIDS[k].lon, "state", "state", 1500)
     ELSE NoneResult

\* _extract_city_from_text: first table city that is a substring of the lowered text
extract_city_from_text(text) ==
  LET text_lower == Lower(text)
      k == FirstIndex(MAJOR_CITY_COORDS, LAMBDA e : Contains(text_lower, e.name))
  IN IF k # 0 THEN MAJOR_CITY_COORDS[k].name ELSE << >>

\* the test both state detectors apply to one table entry: the lowered name as a
\* substring, or an alias as a whole space-delimited word
StateMentioned(text_lower, info) ==
  \/ Contains(text_lower, Lower(info.name))
  \/ LET padded == << " " >> \o text_lower \o << " " >>
     IN \E a \in 1..Len(info.aliases) :
           Contains(padded, << " " >> \o Lower(info.aliases[a]) \o << " " >>)

\* _extract_state_from_text
extract_state_from_text(text) ==
  LET text_lower == Lower(text)
      k == FirstIndex(states, LAMBDA info : StateMentioned(text_lower, info))
  IN IF k # 0 THEN states[k].code ELSE << >>

\* a fallback with latitude and longitude exchanged
get_india_fallback_swapped == GeoResult(789629, 205937, "country_fallback", "country", 15000)

\* _get_india_fallback
get_india_fallback == GeoResult(205937, 789629, "country_fallback", "country", 15000)

\* _estimate_api_precision
estimate_api_precision(raw) ==
  LET precision_map ==
        [house |-> "exact", building |-> "exact", street |-> "street",
         neighbourhood |-> "locality", suburb |-> "locality", city |-> "city",
         town |-> "city", village |-> "city", state |-> "state", country |-> "country"]
  IN IF ~raw.present THEN "locality"
     ELSE IF raw.type \in DOMAIN precision_map THEN precision_map[raw.type]
     ELSE IF raw.addresstype \in DOMAIN precision_map THEN precision_map[raw.addresstype]
     ELSE "locality"

\* _uncertainty_for_precision
uncertainty_for_precision(precision) ==
  LET uncertainty_map ==
        [exact |-> 1, street |-> 5, locality |-> 20, city |-> 100, state |-> 1000,
         country |-> 5000]
  IN IF precision \in DOMAIN uncertainty_map THEN uncertainty_map[precision] ELSE 100

\* an external tier whose except clause for GeocoderTimedOut / GeocoderServiceError
\* is missing, so those exceptions leave geocode
geocode_by_api_uncaught(nominatim, outcome) ==
  IF ~nominatim THEN [raised |-> FALSE, result |-> NoneResult]
  ELSE IF outcome.kind = "location" /\ is_within_india(outcome.lat, outcome.lon)
    THEN [raised |-> FALSE,
          result |-> GeoResult(outcome.lat, outcome.lon, "nominatim",
                               estimate_api_precision(outcome.raw),
                               uncertainty_for_precision(
                                   estimate_api_precision(outcome.raw)))]
  ELSE IF outcome.kind \in {"timeout", "service_error"}
    THEN [raised |-> TRUE, result |-> NoneResult]
  ELSE [raised |-> FALSE, result |-> NoneResult]

\* _geocode_by_api(address), given what the Nominatim client does for the query:
\* both except clauses swallow the exception, so nothing propagates
geocode_by_api(nominatim, outcome) ==
  IF ~nominatim THEN [raised |-> FALSE, result |-> NoneResult]
  ELSE IF outcome.kind = "location"
    THEN IF ~is_within_india(outcome.lat, outcome.lon)
           THEN [raised |-> FALSE, result |-> NoneResult]
         ELSE [raised |-> FALSE,
               result |-> GeoResult(outcome.lat, outcome.lon, "nominatim",
                                    estimate_api_precision(outcome.raw),
                                    uncertainty_for_precision(
                                        estimate_api_precision(outcome.raw)))]
  ELSE [raised |-> FALSE, result |-> NoneResult]

\* the local tiers with the state centroid tried before the city
geocode_local_state_first(req) ==
  LET by_pin == geocode_by_pincode(req.pincode)
      city == IF req.city_hint # << >> THEN req.city_hint
              ELSE extract_city_from_text(req.normalized_text)
      by_city == geocode_by_city(city)
      state == IF req.state_hint # << >> THEN req.state_hint
               ELSE extract_state_from_text(req.normalized_text)
      by_state == geocode_by_state(state)
  IN IF req.pincode # << >> /\ validate_pincode(req.pincode) /\ by_pin # NoneResult
       THEN by_pin
     ELSE IF state # << >> /\ by_state # NoneResult THEN by_state
     ELSE IF city # << >> /\ by_city # NoneResult THEN by_city
     ELSE NoneResult

\* geocode, methods 1-3: the tiers answered from the static tables
geocode_local(req) ==
  LET by_pin == geocode_by_pincode(req.pincode)
      city == IF req.city_hint # << >> THEN req.city_hint
              ELSE extract_city_from_text(req.normalized_text)
      by_city == geocode_by_city(city)
      state == IF req.state_hint # << >> THEN req.state_hint
               ELSE extract_state_from_text(req.normalized_text)
      by_state == geocode_by_state(state)
  IN IF req.pincode # << >> /\ validate_pincode(req.pincode) /\ by_pin # NoneResult
       THEN by_pin
     ELSE IF city # << >> /\ by_city # NoneResult THEN by_city
     ELSE IF state # << >> /\ by_state # NoneResult THEN by_state
     ELSE NoneResult

(***************************************************************************)
(* Inputs of the geocoder runs                                             *)
(***************************************************************************)
\* normalized_text: "", "mumbai", "some village", "Village MH",
\* "kothrud pune maharashtra", "puneet nagar"
GeoTexts ==
  { << >>,
    <<"m","u","m","b","a","i">>,
    <<"s","o","m","e"," ","v","i","l","l","a","g","e">>,
    <<"V","i","l","l","a","g","e"," ","M","H">>,
    <<"k","o","t","h","r","u","d"," ","p","u","n","e"," ","m","a","h","a","r","a","s","h","t","r","a">>,
    <<"p","u","n","e","e","t"," ","n","a","g","a","r">> }

\* pincode: None, "400069" (in the table), "400099" (prefix only), "999999",
\* "000000", "400 069", "40006"
GeoPincodes ==
  { << >>,
    <<"4","0","0","0","6","9">>,
    <<"4","0","0","0","9","9">>,
    <<"9","9","9","9","9","9">>,
    <<"0","0","0","0","0","0">>,
    <<"4","0","0"," ","0","6","9">>,
    <<"4","0","0","0","6">> }

\* city_hint: None, "Mumbai", "atlantis", " pune "
GeoCityHints ==
  { << >>, <<"M","u","m","b","a","i">>, <<"a","t","l","a","n","t","i","s">>,
    <<" ","p","u","n","e"," ">> }

\* state_hint: None, "mh", "XX"
GeoStateHints == { << >>, <<"m","h">>, <<"X","X">> }

GeoRequests ==
  [normalized_text : GeoTexts, pincode : GeoPincodes, city_hint : GeoCityHints,
   state_hint : GeoStateHints]

NoPrev == [source |-> "None", uncertainty_km |-> 0]

NoRequest == [normalized_text |-> << >>, pincode |-> << >>, city_hint |-> << >>,
              state_hint |-> << >>]

\* location.raw of a Nominatim answer
ApiRaws ==
  { [present |-> FALSE, type |-> "", addresstype |-> ""],
    [present |-> TRUE, type |-> "house", addresstype |-> ""],
    [present |-> TRUE, type |-> "administrative", addresstype |-> "state"],
    [present |-> TRUE, type |-> "country", addresstype |-> "country"],
    [present |-> TRUE, type |-> "peak", addresstype |-> "peak"] }

\* (latitude, longitude) of a Nominatim answer: inside the box, on its corners,
\* and just outside each edge
ApiCoords ==
  { <<223500, 786700>>, <<360000, 980000>>, <<60000, 680000>>,
    <<360001, 786700>>, <<59999, 786700>>, <<223500, 679999>>, <<223500, 980001>> }

NoRaw == [present |-> FALSE, type |-> "", addresstype |-> ""]

\* what self._nominatim.geocode(query, country_codes="in") does: returns None,
\* returns a location, raises GeocoderTimedOut / GeocoderServiceError, or raises
\* any other exception
ApiOutcomes ==
  { [kind |-> k, lat |-> 0, lon |-> 0, raw |-> NoRaw] :
        k \in {"none", "timeout", "service_error", "error"} }
  \cup
  { [kind |-> "location", lat |-> c[1], lon |-> c[2], raw |-> r] :
        c \in ApiCoords, r \in ApiRaws }

NotCalled == [kind |-> "not_called", lat |-> 0, lon |-> 0, raw |-> NoRaw]

(***************************************************************************)
(* The geocoder as a state machine                                         *)
(***************************************************************************)
\* everything of a geocoder client before ContextualGeocoder.__init__ has run
GeocoderNew ==
  /\ g_pc = "new"
  /\ g_use_external_api = FALSE
  /\ g_nominatim = FALSE
  /\ g_req = NoRequest
  /\ g_out = NoneResult
  /\ g_raised = FALSE
  /\ g_outcome = NotCalled
  /\ g_apiCalls = 0
  /\ g_prev = NoPrev

GeocoderAtRest == geopy_available = FALSE /\ GeocoderNew

InitGeocoder ==
  /\ geopy_available \in BOOLEAN
  /\ GeocoderNew
  /\ LoaderAtRest
  /\ MatcherAtRest
  /\ RefAtRest
  /\ ScoreAtRest
  /\ ProcessAtRest
  /\ FnAtRest

\* ContextualGeocoder.__init__(use_external_api)
GeocoderConstruct(use_external_api) ==
  /\ g_pc \in {"new", "idle"}
  /\ g_use_external_api' = (use_external_api /\ geopy_available)
  /\ g_nominatim' = (use_external_api /\ geopy_available)
  /\ g_pc' = "idle"
  /\ g_req' = NoRequest
  /\ g_out' = NoneResult
  /\ g_raised' = FALSE
  /\ g_outcome' = NotCalled
  /\ g_apiCalls' = 0
  /\ g_prev' = NoPrev
  /\ UNCHANGED << geopy_available, notGeoVars >>

\* geocode(...) up to the point where it either returns or calls the external service
GeocodeCall(req) ==
  /\ g_pc = "idle"
  /\ g_req' = req
  /\ g_raised' = FALSE
  /\ g_outcome' = NotCalled
  /\ g_apiCalls' = 0
  /\ IF geocode_local(req) # NoneResult
       THEN g_out' = geocode_local(req) /\ g_pc' = "returned"
     ELSE IF g_use_external_api
       THEN g_out' = NoneResult /\ g_pc' = "api"
     ELSE g_out' = get_india_fallback /\ g_pc' = "returned"
  /\ UNCHANGED << geopy_available, g_use_external_api, g_nominatim, g_prev, notGeoVars >>

\* the external call of method 4 completes, and geocode returns
GeocodeApiReturn(outcome) ==
  /\ g_pc = "api"
  /\ g_outcome' = outcome
  /\ g_apiCalls' = g_apiCalls + 1
  /\ LET r == geocode_by_api(g_nominatim, outcome)
     IN /\ g_raised' = r.raised
        /\ g_out' = IF r.raised THEN NoneResult
                    ELSE IF r.result # NoneResult THEN r.result
                    ELSE get_india_fallback
  /\ g_pc' = "returned"
  /\ UNCHANGED << geopy_available, g_use_external_api, g_nominatim, g_req, g_prev, notGeoVars >>

\* the caller takes the result (or the exception); the geocoder is ready for the next call
GeocodeTaken ==
  /\ g_pc = "returned"
  /\ g_prev' = [source |-> g_out.source, uncertainty_km |-> g_out.uncertainty_km]
  /\ g_out' = NoneResult
  /\ g_req' = NoRequest
  /\ g_raised' = FALSE
  /\ g_outcome' = NotCalled
  /\ g_apiCalls' = 0
  /\ g_pc' = "idle"
  /\ UNCHANGED << geopy_available, g_use_external_api, g_nominatim, notGeoVars >>

NextGeocoder ==
  \/ \E b \in BOOLEAN : GeocoderConstruct(b)
  \/ \E req \in GeoRequests : GeocodeCall(req)
  \/ \E outcome \in ApiOutcomes : GeocodeApiReturn(outcome)
  \/ GeocodeTaken

SpecGeocoder == InitGeocoder /\ [][NextGeocoder]_vars

\* a geocode call has returned
GeoDone == g_pc = "returned"
(***************************************************************************)
(* Properties of the geocoder                                              *)
(***************************************************************************)
\* which tiers' lookups succeed for a request, each stated on its own table
PincodeExactHit(req) ==
  /\ validate_pincode(req.pincode)
  /\ \E i \in 1..Len(pincode_coords) : pincode_coords[i].pincode = req.pincode

PincodePrefixHit(req) ==
  /\ validate_pincode(req.pincode)
  /\ Len(req.pincode) >= 3
  /\ LET prefix == SubSeq(req.pincode, 1, 3)
     IN \E i \in 1..Len(pincode_coords) : StartsWith(pincode_coords[i].pincode, prefix)

CityKey(req) ==
  IF req.city_hint # << >> THEN req.city_hint ELSE extract_city_from_text(req.normalized_text)

CityHit(req) ==
  LET key == Strip(Lower(CityKey(req)))
  IN \E i \in 1..Len(MAJOR_CITY_COORDS) : MAJOR_CITY_COORDS[i].name = key

StateKey(req) ==
  IF req.state_hint # << >> THEN req.state_hint
  ELSE extract_state_from_text(req.normalized_text)

StateHit(req) ==
  LET key == Upper(StateKey(req))
  IN \E i \in 1..Len(STATE_CENTROIDS) : STATE_CENTROIDS[i].code = key

ApiHit ==
  /\ g_use_external_api
  /\ g_outcome.kind = "location"
  /\ 60000 <= g_outcome.lat /\ g_outcome.lat <= 360000
  /\ 680000 <= g_outcome.lon /\ g_outcome.lon <= 980000

LocalMiss(req) ==
  ~PincodeExactHit(req) /\ ~PincodePrefixHit(req) /\ ~CityHit(req) /\ ~StateHit(req)

HighestTier(req) ==
  IF PincodeExactHit(req) THEN "pincode"
  ELSE IF PincodePrefixHit(req) THEN "pincode_prefix"
  ELSE IF CityHit(req) THEN "city"
  ELSE IF StateHit(req) THEN "state"
  ELSE IF ApiHit THEN "nominatim"
  ELSE "country_fallback"

\* C1: whenever geocode has returned, the source of its result is the
\* highest-precedence tier (pincode, pincode prefix, city, state, external call,
\* country centroid) whose lookup succeeds for the request; a lower tier's
\* result is never returned while a higher tier hits.
C1_StrictPrecedence == GeoDone => g_out.source = HighestTier(g_req)

\* C1 witness: a call for which the prefix, city and state tiers all hit, and the
\* prefix tier's result was returned.
C1_Witness ==
  /\ GeoDone
  /\ ~PincodeExactHit(g_req) /\ PincodePrefixHit(g_req) /\ CityHit(g_req) /\ StateHit(g_req)
  /\ g_out.source = "pincode_prefix"

\* rank of a source in the precedence chain the claim lists
ChainRank ==
  [pincode |-> 1, pincode_prefix |-> 2, city |-> 3, state |-> 4, country_fallback |-> 5]

\* C2: the uncertainty radius is non-decreasing along the precedence chain
\* pincode <= pincode_prefix <= city <= state <= country_fallback: of two results
\* geocode returned one after the other, the one whose source is not later in the
\* chain has the radius that is not larger.
C2_UncertaintyMonotone ==
  (/\ GeoDone
   /\ g_prev.source \in DOMAIN ChainRank
   /\ g_out.source \in DOMAIN ChainRank)
  => /\ ChainRank[g_prev.source] <= ChainRank[g_out.source]
          => g_prev.uncertainty_km <= g_out.uncertainty_km
     /\ ChainRank[g_out.source] <= ChainRank[g_prev.source]
          => g_out.uncertainty_km <= g_prev.uncertainty_km

\* C5 as stated: geocode with empty text, no pincode and no hints never raises and
\* always returns the country centroid (20.5937, 78.9629) with source
\* country_fallback.
C5_EmptyAlwaysFallback ==
  (GeoDone /\ g_req = NoRequest)
  => /\ ~g_raised
     /\ g_out.source = "country_fallback"
     /\ g_out.latitude = 205937 /\ g_out.longitude = 789629

\* C5 amended: geocode never raises, and when no pincode, city or state resolves
\* (in particular for empty text with no pincode and no hints) and the external
\* call is disabled or yields no in-bounds location, the result is exactly the
\* country centroid (20.5937, 78.9629) with source country_fallback.
C5_FallbackWhenNothingResolves ==
  GeoDone
  => /\ ~g_raised
     /\ (LocalMiss(g_req) /\ ~ApiHit)
          => /\ g_out.source = "country_fallback"
             /\ g_out.latitude = 205937 /\ g_out.longitude = 789629

\* C5 witness: the empty request on a geocoder whose external tier is enabled, the
\* service gave nothing, and the centroid came back.
C5_Witness ==
  /\ GeoDone /\ g_req = NoRequest /\ g_use_external_api /\ g_outcome.kind = "none"
  /\ g_out.source = "country_fallback"

\* C6: the external service is invoked at most once per geocode call, and when it
\* times out or fails with a service error geocode does not raise and returns
\* the country fallback.
C6_ApiFailureDegrades ==
  /\ g_apiCalls <= 1
  /\ (GeoDone /\ g_outcome.kind \in {"timeout", "service_error"})
       => /\ ~g_raised
          /\ g_apiCalls = 1
          /\ g_out.source = "country_fallback"

\* C6 witness: a call that reached the external tier, which timed out.
C6_Witness ==
  GeoDone /\ g_outcome.kind = "timeout" /\ g_apiCalls = 1 /\ g_out.source = "country_fallback"

DictGet(d, k, default) == IF k \in DOMAIN d THEN d[k] ELSE default

\* if k not in d: d[k] = []
\* d[k].append(v)
IndexAppend(d, k, v) ==
  IF k \in DOMAIN d THEN [d EXCEPT ![k] = Append(@, v)] ELSE d @@ (k :> << v >>)

\* `x or []` for an Optional[list]
ListOrEmpty(c) == IF c.none THEN << >> ELSE c.list

\* a row of landmarks.csv; wellformed is FALSE when a column is missing or a
\* coordinate is not a number (KeyError / ValueError in the row's try block)
CsvRow(name, type, latitude, longitude, city, wellformed) ==
  [name |-> name, type |-> type, latitude |-> latitude, longitude |-> longitude,
   city |-> city, wellformed |-> wellformed]

RowRajwada ==
  CsvRow(<<"R","a","j","w","a","d","a">>, <<"H","i","s","t","o","r","i","c">>,
         227185, 758550, <<"I","n","d","o","r","e">>, TRUE)

RowCST ==
  CsvRow(<<"C","S","T">>, <<"S","t","a","t","i","o","n"," ">>,
         189398, 728355, <<" ","M","u","m","b","a","i"," ">>, TRUE)

RowGateway ==
  CsvRow(<<"G","a","t","e","w","a","y">>, <<"H","i","s","t","o","r","i","c">>,
         189220, 728347, <<"m","u","m","b","a","i">>, TRUE)

RowBroken ==
  CsvRow(<<"G","a","t","e","w","a","y">>, <<"s","t","a","t","i","o","n">>,
         0, 0, <<"m","u","m","b","a","i">>, FALSE)

\* what landmarks.csv can be: absent, present but unreadable, or a list of rows
LandmarkFiles ==
  { NoFile,
    [exists |-> TRUE, readable |-> FALSE, rows |-> << >>],
    [exists |-> TRUE, readable |-> TRUE, rows |-> << RowRajwada, RowCST >>],
    [exists |-> TRUE, readable |-> TRUE, rows |-> << RowCST, RowBroken, RowGateway >>] }

LoaderCities == { <<"I","N","D","O","R","E">>, <<"M","u","m","b","a","i">> }

LoaderTypes == { <<"S","T","A","T","I","O","N">> }

LoaderNames == { <<"c","s","t">> }

\* Landmark(name=row['name'].strip(), type=row['type'].strip().lower(), ...)
MakeLandmark(row) ==
  [name |-> Strip(row.name), type |-> Lower(Strip(row.type)),
   latitude |-> row.latitude, longitude |-> row.longitude,
   city |-> Lower(Strip(row.city))]

\* thread t moves on; the loader's attributes are not written
DLLocal(t, th) ==
  /\ dl_t' = [dl_t EXCEPT ![t] = th]
  /\ UNCHANGED << dl_file, dl_cache, dl_by_city, dl_by_type, notLoaderVars >>

\* a method returns value: to its caller inside the loader, or to the client
DLReturn(th, value) ==
  IF th.stack = << >>
    THEN [th EXCEPT !.pc = "done", !.obs = value]
    ELSE [th EXCEPT !.pc = Head(th.stack), !.stack = Tail(th.stack), !.val = value]

\* the client calls a method of the loader
call_get_landmarks(t, reload) ==
  /\ dl_t[t].pc = "idle"
  /\ DLLocal(t, [IdleThread EXCEPT !.pc = "gl_173", !.op = "get_landmarks",
                                   !.reload = reload])

call_get_landmarks_by_city(t, city) ==
  /\ dl_t[t].pc = "idle"
  /\ DLLocal(t, [IdleThread EXCEPT !.pc = "gc_179", !.op = "get_landmarks_by_city",
                                   !.city = city])

call_get_landmarks_by_type(t, ltype) ==
  /\ dl_t[t].pc = "idle"
  /\ DLLocal(t, [IdleThread EXCEPT !.pc = "gt_185", !.op = "get_landmarks_by_type",
                                   !.ltype = ltype])

\* find_landmark(name, city, fuzzy=False)
call_find_landmark(t, name, city) ==
  /\ dl_t[t].pc = "idle"
  /\ DLLocal(t, [IdleThread EXCEPT !.pc = "fl_206", !.op = "find_landmark",
                                   !.name = name, !.city = city])

call_clear_cache(t) ==
  /\ dl_t[t].pc = "idle"
  /\ DLLocal(t, [IdleThread EXCEPT !.pc = "cc_470", !.op = "clear_cache"])

\* if self._landmarks_cache is None or reload: self._load_landmarks()
get_landmarks_check(t) ==
  /\ dl_t[t].pc = "gl_173"
  /\ DLLocal(t, [dl_t[t] EXCEPT !.pc = IF dl_cache.none \/ dl_t[t].reload
                                         THEN "ld_232" ELSE "gl_175"])

\* return self._landmarks_cache or []
get_landmarks_return(t) ==
  /\ dl_t[t].pc = "gl_175"
  /\ DLLocal(t, DLReturn(dl_t[t], ListOrEmpty(dl_cache)))

\* self._landmarks_cache = []
load_landmarks_reset_cache(t) ==
  /\ dl_t[t].pc = "ld_232"
  /\ dl_cache' = [none |-> FALSE, list |-> << >>]
  /\ dl_t' = [dl_t EXCEPT ![t].pc = "ld_233"]
  /\ UNCHANGED << dl_file, dl_by_city, dl_by_type, notLoaderVars >>

\* a load that leaves the by-city index as it was
load_landmarks_keep_by_city(t) ==
  /\ dl_t[t].pc = "ld_233"
  /\ dl_t' = [dl_t EXCEPT ![t].pc = "ld_234"]
  /\ UNCHANGED << dl_file, dl_cache, dl_by_city, dl_by_type, notLoaderVars >>

\* self._landmarks_by_city = {}
load_landmarks_reset_by_city(t) ==
  /\ dl_t[t].pc = "ld_233"
  /\ dl_by_city' = EmptyDict
  /\ dl_t' = [dl_t EXCEPT ![t].pc = "ld_234"]
  /\ UNCHANGED << dl_file, dl_cache, dl_by_type, notLoaderVars >>

\* self._landmarks_by_type = {}
load_landmarks_reset_by_type(t) ==
  /\ dl_t[t].pc = "ld_234"
  /\ dl_by_type' = EmptyDict
  /\ dl_t' = [dl_t EXCEPT ![t].pc = "ld_237"]
  /\ UNCHANGED << dl_file, dl_cache, dl_by_city, notLoaderVars >>

\* if not csv_path.exists(): return;  open(...) raising is caught and reported
load_landmarks_open(t) ==
  /\ dl_t[t].pc = "ld_237"
  /\ DLLocal(t, IF dl_file.exists /\ dl_file.readable
                  THEN [dl_t[t] EXCEPT !.pc = "ld_243", !.row = 1]
                  ELSE [dl_t[t] EXCEPT !.pc = "gl_175"])

\* for row in reader: landmark = Landmark(...), a malformed row is skipped
load_landmarks_next_row(t) ==
  /\ dl_t[t].pc = "ld_243"
  /\ LET th == dl_t[t]
     IN DLLocal(t, IF th.row > Len(dl_file.rows)
                     THEN [th EXCEPT !.pc = "gl_175", !.row = 0, !.lm = NoLandmark]
                   ELSE IF ~dl_file.rows[th.row].wellformed
                     THEN [th EXCEPT !.row = th.row + 1]
                   ELSE [th EXCEPT !.pc = "ld_252",
                                   !.lm = MakeLandmark(dl_file.rows[th.row])])

\* self._landmarks_cache.append(landmark); on a cache that another thread has
\* set to None this raises AttributeError, which ends the load at line 267
load_landmarks_append(t) ==
  /\ dl_t[t].pc = "ld_252"
  /\ IF dl_cache.none
       THEN /\ dl_t' = [dl_t EXCEPT ![t].pc = "gl_175", ![t].row = 0,
                                    ![t].lm = NoLandmark]
            /\ UNCHANGED dl_cache
       ELSE /\ dl_cache' = [dl_cache EXCEPT !.list = Append(@, dl_t[t].lm)]
            /\ dl_t' = [dl_t EXCEPT ![t].pc = "ld_255"]
  /\ UNCHANGED << dl_file, dl_by_city, dl_by_type, notLoaderVars >>

\* index by city
load_landmarks_index_city(t) ==
  /\ dl_t[t].pc = "ld_255"
  /\ dl_by_city' = IndexAppend(dl_by_city, dl_t[t].lm.city, dl_t[t].lm)
  /\ dl_t' = [dl_t EXCEPT ![t].pc = "ld_260"]
  /\ UNCHANGED << dl_file, dl_cache, dl_by_type, notLoaderVars >>

\* index by type, then on to the next row
load_landmarks_index_type(t) ==
  /\ dl_t[t].pc = "ld_260"
  /\ dl_by_type' = IndexAppend(dl_by_type, dl_t[t].lm.type, dl_t[t].lm)
  /\ dl_t' = [dl_t EXCEPT ![t].pc = "ld_243", ![t].row = dl_t[t].row + 1,
                          ![t].lm = NoLandmark]
  /\ UNCHANGED << dl_file, dl_cache, dl_by_city, notLoaderVars >>

\* if not self._landmarks_by_city: self.get_landmarks()
get_landmarks_by_city_check(t) ==
  /\ dl_t[t].pc = "gc_179"
  /\ LET th == dl_t[t]
     IN DLLocal(t, IF DOMAIN dl_by_city = {}
                     THEN [th EXCEPT !.pc = "gl_173", !.reload = FALSE,
                                     !.stack = << "gc_181" >> \o th.stack]
                     ELSE [th EXCEPT !.pc = "gc_181"])

\* return self._landmarks_by_city.get(city.lower(), [])
get_landmarks_by_city_return(t) ==
  /\ dl_t[t].pc = "gc_181"
  /\ DLLocal(t, DLReturn([dl_t[t] EXCEPT !.val = << >>],
                         DictGet(dl_by_city, Lower(dl_t[t].city), << >>)))

\* if not self._landmarks_by_type: self.get_landmarks()
get_landmarks_by_type_check(t) ==
  /\ dl_t[t].pc = "gt_185"
  /\ LET th == dl_t[t]
     IN DLLocal(t, IF DOMAIN dl_by_type = {}
                     THEN [th EXCEPT !.pc = "gl_173", !.reload = FALSE,
                                     !.stack = << "gt_187" >> \o th.stack]
                     ELSE [th EXCEPT !.pc = "gt_187"])

\* return self._landmarks_by_type.get(landmark_type.lower(), [])
get_landmarks_by_type_return(t) ==
  /\ dl_t[t].pc = "gt_187"
  /\ DLLocal(t, DLReturn([dl_t[t] EXCEPT !.val = << >>],
                         DictGet(dl_by_type, Lower(dl_t[t].ltype), << >>)))

\* landmarks = self.get_landmarks_by_city(city) if city else self.get_landmarks()
find_landmark_fetch(t) ==
  /\ dl_t[t].pc = "fl_206"
  /\ LET th == dl_t[t]
     IN DLLocal(t, IF th.city # << >>
                     THEN [th EXCEPT !.pc = "gc_179", !.stack = << "fl_207" >>]
                     ELSE [th EXCEPT !.pc = "gl_173", !.reload = FALSE,
                                     !.stack = << "fl_207" >>])

\* the exact-match loop over the fetched list; None is the empty observation
find_landmark_match(t) ==
  /\ dl_t[t].pc = "fl_207"
  /\ LET th == dl_t[t]
         name_lower == Lower(th.name)
         hits == SelectSeq(th.val, LAMBDA lm : Lower(lm.name) = name_lower)
     IN DLLocal(t, [th EXCEPT !.pc = "done", !.val = << >>,
                              !.obs = IF hits = << >> THEN << >> ELSE << Head(hits) >>])

\* self._landmarks_cache = None
clear_cache_landmarks(t) ==
  /\ dl_t[t].pc = "cc_470"
  /\ dl_cache' = NoneList
  /\ dl_t' = [dl_t EXCEPT ![t].pc = "cc_473"]
  /\ UNCHANGED << dl_file, dl_by_city, dl_by_type, notLoaderVars >>

\* self._landmarks_by_city = {}
clear_cache_by_city(t) ==
  /\ dl_t[t].pc = "cc_473"
  /\ dl_by_city' = EmptyDict
  /\ dl_t' = [dl_t EXCEPT ![t].pc = "cc_474"]
  /\ UNCHANGED << dl_file, dl_cache, dl_by_type, notLoaderVars >>

\* self._landmarks_by_type = {}
clear_cache_by_type(t) ==
  /\ dl_t[t].pc = "cc_474"
  /\ dl_by_type' = EmptyDict
  /\ dl_t' = [dl_t EXCEPT ![t].pc = "done"]
  /\ UNCHANGED << dl_file, dl_cache, dl_by_city, notLoaderVars >>

\* the client has the result; the thread is free for its next call
LoaderTaken(t) ==
  /\ dl_t[t].pc = "done"
  /\ DLLocal(t, IdleThread)

InitLoader ==
  /\ dl_file \in LandmarkFiles
  /\ DataLoaderInit
  /\ GeocoderAtRest
  /\ MatcherAtRest
  /\ RefAtRest
  /\ ScoreAtRest
  /\ ProcessAtRest
  /\ FnAtRest

NextLoader ==
  \E t \in Threads :
    \/ \E reload \in BOOLEAN : call_get_landmarks(t, reload)
    \/ \E city \in LoaderCities : call_get_landmarks_by_city(t, city)
    \/ \E ltype \in LoaderTypes : call_get_landmarks_by_type(t, ltype)
    \/ \E name \in LoaderNames, city \in LoaderCities \cup {<< >>} :
          call_find_landmark(t, name, city)
    \/ call_clear_cache(t)
    \/ get_landmarks_check(t)
    \/ get_landmarks_return(t)
    \/ load_landmarks_reset_cache(t)
    \/ load_landmarks_reset_by_city(t)
    \/ load_landmarks_reset_by_type(t)
    \/ load_landmarks_open(t)
    \/ load_landmarks_next_row(t)
    \/ load_landmarks_append(t)
    \/ load_landmarks_index_city(t)
    \/ load_landmarks_index_type(t)
    \/ get_landmarks_by_city_check(t)
    \/ get_landmarks_by_city_return(t)
    \/ get_landmarks_by_type_check(t)
    \/ get_landmarks_by_type_return(t)
    \/ find_landmark_fetch(t)
    \/ find_landmark_match(t)
    \/ clear_cache_landmarks(t)
    \/ clear_cache_by_city(t)
    \/ clear_cache_by_type(t)
    \/ LoaderTaken(t)

SpecLoader == InitLoader /\ [][NextLoader]_vars

(***************************************************************************)
(* Properties of the DataLoader                                            *)
(***************************************************************************)
\* what a complete load of landmarks.csv yields
CompleteLandmarks ==
  IF dl_file.exists /\ dl_file.readable
    THEN LET ok == SelectSeq(dl_file.rows, LAMBDA r : r.wellformed)
         IN [i \in 1..Len(ok) |-> MakeLandmark(ok[i])]
    ELSE << >>

CompleteByCity(city) ==
  LET c == Lower(city) IN SelectSeq(CompleteLandmarks, LAMBDA lm : lm.city = c)

CompleteByType(ltype) ==
  LET ty == Lower(ltype) IN SelectSeq(CompleteLandmarks, LAMBDA lm : lm.type = ty)

\* what the read that thread record th describes returns on a completely loaded store
CompleteAnswer(th) ==
  IF th.op = "get_landmarks" THEN CompleteLandmarks
  ELSE IF th.op = "get_landmarks_by_city" THEN CompleteByCity(th.city)
  ELSE IF th.op = "get_landmarks_by_type" THEN CompleteByType(th.ltype)
  ELSE LET pool == IF th.city # << >> THEN CompleteByCity(th.city) ELSE CompleteLandmarks
           name_lower == Lower(th.name)
           hits == SelectSeq(pool, LAMBDA lm : Lower(lm.name) = name_lower)
       IN IF hits = << >> THEN << >> ELSE << Head(hits) >>

ReadOps == {"get_landmarks", "get_landmarks_by_city", "get_landmarks_by_type",
            "find_landmark"}

ReadDone(t) == dl_t[t].pc = "done" /\ dl_t[t].op \in ReadOps

\* thread u is inside _load_landmarks on behalf of get_landmarks(reload=True)
Reloading(u) ==
  /\ dl_t[u].pc \in {"ld_232", "ld_233", "ld_234", "ld_237", "ld_243", "ld_252",
                     "ld_255", "ld_260"}
  /\ dl_t[u].op = "get_landmarks"
  /\ dl_t[u].reload

\* C8: a read that completes while another thread is reloading the gazetteer
\* returns what the completely loaded store returns, never an empty or partly
\* rebuilt list or index.
C8_ReloadAtomicSwap ==
  \A t \in Threads, u \in Threads :
    (t # u /\ ReadDone(t) /\ Reloading(u)) => dl_t[t].obs = CompleteAnswer(dl_t[t])

(***************************************************************************)
(* landmark_matcher.py and address_pipeline.py: the module-level matcher   *)
(* and the shared AddressPipeline, called from several threads.            *)
(* st_available stands for "sentence_transformers imports and the model    *)
(* loads"; an instance is known by the order in which it was constructed.  *)
(***************************************************************************)
\* LandmarkMatcher._load_landmarks: the list self._landmarks ends up with
matcher_load_landmarks(file) ==
  IF file.exists /\ file.readable
    THEN LET ok == SelectSeq(file.rows, LAMBDA r : r.wellformed)
         IN [i \in 1..Len(ok) |-> MakeLandmark(ok[i])]
    ELSE << >>

\* LandmarkMatcher.__init__(use_embeddings): 1 if _build_embeddings encodes, else 0
matcher_encodes(use_embeddings) ==
  IF use_embeddings /\ st_available /\ matcher_load_landmarks(m_file) # << >>
    THEN 1 ELSE 0

MLocal(t, th) ==
  /\ m_t' = [m_t EXCEPT ![t] = th]
  /\ UNCHANGED << st_available, m_file, m_global, m_built, m_embedded, p_initialized,
                  notMatcherVars >>

\* get_matcher()
call_get_matcher(t) ==
  /\ m_t[t].pc = "idle"
  /\ MLocal(t, [IdleCaller EXCEPT !.pc = "gm_439", !.op = "get_matcher"])

\* match_landmark(user_phrase, city, top_k) of the module
call_match_landmark(t) ==
  /\ m_t[t].pc = "idle"
  /\ MLocal(t, [IdleCaller EXCEPT !.pc = "gm_439", !.op = "match_landmark",
                                  !.stack = << "ml_502" >>])

\* AddressPipeline.process(raw_address) on the shared pipeline; phrases is the
\* number of phrases of the address that process hands to match_landmark
call_process(t, phrases) ==
  /\ m_t[t].pc = "idle"
  /\ MLocal(t, [IdleCaller EXCEPT !.pc = "pr_163", !.op = "process",
                                  !.phrases = phrases])

\* if _global_matcher is None or data_path is not None   (data_path is None)
get_matcher_check(t) ==
  /\ m_t[t].pc = "gm_439"
  /\ MLocal(t, [m_t[t] EXCEPT !.pc = IF m_global = 0 THEN "gm_440" ELSE "gm_442"])

\* LandmarkMatcher(data_path=data_path, **kwargs), the right-hand side of line 440
get_matcher_construct(t) ==
  /\ m_t[t].pc = "gm_440"
  /\ m_built' = m_built + 1
  /\ m_embedded' = m_embedded + matcher_encodes(TRUE)
  /\ m_t' = [m_t EXCEPT ![t].pc = "gm_440_store", ![t].inst = m_built + 1]
  /\ UNCHANGED << st_available, m_file, m_global, p_initialized, notMatcherVars >>

\* _global_matcher = <the new instance>
get_matcher_assign(t) ==
  /\ m_t[t].pc = "gm_440_store"
  /\ m_global' = m_t[t].inst
  /\ m_t' = [m_t EXCEPT ![t].pc = "gm_442", ![t].inst = 0]
  /\ UNCHANGED << st_available, m_file, m_built, m_embedded, p_initialized,
                  notMatcherVars >>

\* return _global_matcher
get_matcher_return(t) ==
  /\ m_t[t].pc = "gm_442"
  /\ LET th == m_t[t]
     IN MLocal(t, IF th.stack = << >>
                    THEN [th EXCEPT !.pc = "done", !.used = m_global]
                    ELSE [th EXCEPT !.pc = Head(th.stack), !.stack = Tail(th.stack),
                                    !.used = m_global])

\* matcher.match_landmark(user_phrase, city=city, top_k=top_k) on the instance obtained
match_landmark_use(t) ==
  /\ m_t[t].pc = "ml_502"
  /\ LET th == m_t[t]
     IN MLocal(t, IF th.op = "process"
                    THEN [th EXCEPT !.pc = "pr_185", !.phrases = th.phrases - 1]
                    ELSE [th EXCEPT !.pc = "done"])

\* process: if not self._initialized: self._initialize_matcher()
process_check(t) ==
  /\ m_t[t].pc = "pr_163"
  /\ MLocal(t, [m_t[t] EXCEPT !.pc = IF p_initialized THEN "pr_185" ELSE "pr_124"])

\* _initialize_matcher: if not self._initialized:
initialize_matcher_check(t) ==
  /\ m_t[t].pc = "pr_124"
  /\ MLocal(t, [m_t[t] EXCEPT !.pc = IF p_initialized THEN "pr_185" ELSE "pr_475"])

\* build_landmark_embeddings: LandmarkMatcher(data_path=data_path, use_embeddings=True)
build_landmark_embeddings_construct(t) ==
  /\ m_t[t].pc = "pr_475"
  /\ m_built' = m_built + 1
  /\ m_embedded' = m_embedded + matcher_encodes(TRUE)
  /\ m_t' = [m_t EXCEPT ![t].pc = "pr_475_store", ![t].inst = m_built + 1]
  /\ UNCHANGED << st_available, m_file, m_global, p_initialized, notMatcherVars >>

\* build_landmark_embeddings: _global_matcher = <the new instance>
build_landmark_embeddings_assign(t) ==
  /\ m_t[t].pc = "pr_475_store"
  /\ m_global' = m_t[t].inst
  /\ m_t' = [m_t EXCEPT ![t].pc = "pr_129", ![t].inst = 0]
  /\ UNCHANGED << st_available, m_file, m_built, m_embedded, p_initialized,
                  notMatcherVars >>

\* _initialize_matcher: self._initialized = True
initialize_matcher_done(t) ==
  /\ m_t[t].pc = "pr_129"
  /\ p_initialized' = TRUE
  /\ m_t' = [m_t EXCEPT ![t].pc = "pr_185"]
  /\ UNCHANGED << st_available, m_file, m_global, m_built, m_embedded, notMatcherVars >>

\* process: the next match_landmark(phrase, city=city, top_k=1), or the rest of
\* the pipeline, which does not touch the matcher
process_match(t) ==
  /\ m_t[t].pc = "pr_185"
  /\ LET th == m_t[t]
     IN MLocal(t, IF th.phrases > 0
                    THEN [th EXCEPT !.pc = "gm_439", !.stack = << "ml_502" >>]
                    ELSE [th EXCEPT !.pc = "done"])

\* the caller has its result; the thread is free for its next call
MatcherTaken(t) ==
  /\ m_t[t].pc = "done"
  /\ MLocal(t, IdleCaller)

InitMatcher ==
  /\ st_available \in BOOLEAN
  /\ m_file \in LandmarkFiles
  /\ MatcherInit
  /\ GeocoderAtRest
  /\ LoaderAtRest
  /\ RefAtRest
  /\ ScoreAtRest
  /\ ProcessAtRest
  /\ FnAtRest

NextMatcher ==
  \E t \in Threads :
    \/ call_get_matcher(t)
    \/ call_match_landmark(t)
    \/ \E phrases \in {0, 1} : call_process(t, phrases)
    \/ get_matcher_check(t)
    \/ get_matcher_construct(t)
    \/ get_matcher_assign(t)
    \/ get_matcher_return(t)
    \/ match_landmark_use(t)
    \/ process_check(t)
    \/ initialize_matcher_check(t)
    \/ build_landmark_embeddings_construct(t)
    \/ build_landmark_embeddings_assign(t)
    \/ initialize_matcher_done(t)
    \/ process_match(t)
    \/ MatcherTaken(t)

SpecMatcher == InitMatcher /\ [][NextMatcher]_vars

(***************************************************************************)
(* Properties of the lazy matcher initialisation                           *)
(***************************************************************************)
\* no AddressPipeline.process has started yet: every call so far was a
\* get_matcher() or a match_landmark() that found the matcher as the module left it
OnlyLazyCallers == ~p_initialized /\ \A t \in Threads : m_t[t].op # "process"

\* C9: when the callers so far are first users of the lazily created matcher,
\* it has been constructed at most once, its embeddings have been computed at
\* most once, and all callers that have returned hold the same instance.
C9_InitialisedOnce ==
  OnlyLazyCallers =>
    /\ m_built <= 1
    /\ m_embedded <= 1
    /\ \A t \in Threads, u \in Threads :
         (m_t[t].pc = "done" /\ m_t[u].pc = "done") => m_t[t].used = m_t[u].used

(***************************************************************************)
(* utils.py and landmark_matcher.py: loading the reference data.  A JSON   *)
(* file is "missing", "corrupt" (json.load or the reshaping of its content *)
(* raises) or "ok"; landmarks.csv is "missing", "corrupt" (reading it      *)
(* raises) or "ok".                                                        *)
(***************************************************************************)
FileStates == {"missing", "corrupt", "ok"}

FallbackLandmarks ==
  << [category |-> "religious",
      patterns |-> << <<"t","e","m","p","l","e">>,
                      <<"m","a","n","d","i","r">>,
                      <<"m","a","s","j","i","d">>,
                      <<"m","o","s","q","u","e">>,
                      <<"c","h","u","r","c","h">>,
                      <<"g","u","r","u","d","w","a","r","a">>,
                      <<"d","a","r","g","a","h">> >>],
     [category |-> "transport",
      patterns |-> << <<"r","a","i","l","w","a","y"," ","s","t","a","t","i","o","n">>,
                      <<"b","u","s"," ","s","t","a","n","d">>,
                      <<"b","u","s"," ","s","t","o","p">>,
                      <<"m","e","t","r","o"," ","s","t","a","t","i","o","n">>,
                      <<"a","i","r","p","o","r","t">> >>],
     [category |-> "commercial",
      patterns |-> << <<"m","a","r","k","e","t">>,
                      <<"m","a","l","l">>,
                      <<"s","h","o","p">>,
                      <<"b","a","z","a","a","r">>,
                      <<"m","a","n","d","i">> >>],
     [category |-> "education",
      patterns |-> << <<"s","c","h","o","o","l">>,
                      <<"c","o","l","l","e","g","e">>,
                      <<"u","n","i","v","e","r","s","i","t","y">>,
                      <<"v","i","d","y","a","l","a","y","a">>,
                      <<"i","n","s","t","i","t","u","t","e">> >>],
     [category |-> "health",
      patterns |-> << <<"h","o","s","p","i","t","a","l">>,
                      <<"c","l","i","n","i","c">>,
                      <<"d","i","s","p","e","n","s","a","r","y">>,
                      <<"m","e","d","i","c","a","l">> >>],
     [category |-> "government",
      patterns |-> << <<"p","o","l","i","c","e"," ","s","t","a","t","i","o","n">>,
                      <<"p","o","s","t"," ","o","f","f","i","c","e">>,
                      <<"c","o","u","r","t">>,
                      <<"c","o","l","l","e","c","t","o","r"," ","o","f","f","i","c","e">> >>],
     [category |-> "infrastructure",
      patterns |-> << <<"b","r","i","d","g","e">>,
                      <<"f","l","y","o","v","e","r">>,
                      <<"s","i","g","n","a","l">>,
                      <<"c","h","o","w","k">>,
                      <<"c","i","r","c","l","e">>,
                      <<"s","q","u","a","r","e">> >>] >>

\* contents of well-formed data files
StatesFile ==
  << [code |-> <<"G","A">>, name |-> <<"G","o","a">>,
      aliases |-> << <<"g","a">>, <<"g","o","a">> >>] >>

PincodesFile == << [pincode |-> <<"4","0","3","0","0","1">>, lat |-> 154909, lon |-> 738278] >>

LandmarksFile == << [category |-> "religious", patterns |-> << <<"t","e","m","p","l","e">> >>] >>

CsvFile(state) ==
  IF state = "missing" THEN NoFile
  ELSE IF state = "corrupt" THEN [exists |-> TRUE, readable |-> FALSE, rows |-> << >>]
  ELSE [exists |-> TRUE, readable |-> TRUE, rows |-> << RowRajwada, RowCST >>]

\* try: json.load(f)  except FileNotFoundError: return the fallback.
\* Any other exception leaves the function; lru_cache keeps a returned value only.
load_json(state, content, fallback) ==
  IF state = "missing" THEN [raised |-> FALSE, table |-> fallback]
  ELSE IF state = "corrupt" THEN [raised |-> TRUE, table |-> << >>]
  ELSE [raised |-> FALSE, table |-> content]

load_indian_states(state) == load_json(state, StatesFile, FallbackStates)

load_landmark_patterns(state) == load_json(state, LandmarksFile, FallbackLandmarks)

load_pincode_centroids(state) == load_json(state, PincodesFile, FallbackPincodes)

\* a call through @lru_cache(maxsize=1) of a loader without arguments
RefCall(src, r) ==
  /\ IF ref_cached[src].hit
       THEN /\ ref_result' = [source |-> src, raised |-> FALSE,
                              table |-> ref_cached[src].value]
            /\ UNCHANGED ref_cached
       ELSE /\ ref_result' = [source |-> src, raised |-> r.raised, table |-> r.table]
            /\ ref_cached' = IF r.raised THEN ref_cached
                             ELSE [ref_cached EXCEPT ![src] =
                                     [hit |-> TRUE, value |-> r.table]]
  /\ UNCHANGED << ref_files, notRefVars >>

LoadIndianStates ==
  RefCall("indian_states", load_indian_states(ref_files["indian_states"]))

LoadLandmarkPatterns ==
  RefCall("landmark_patterns", load_landmark_patterns(ref_files["landmark_patterns"]))

LoadPincodeCentroids ==
  RefCall("pincode_centroids", load_pincode_centroids(ref_files["pincode_centroids"]))

\* LandmarkMatcher._load_landmarks of a new instance; it catches what reading raises
LoadLandmarksCsv ==
  /\ ref_result' = [source |-> "landmarks_csv", raised |-> FALSE,
                    table |-> matcher_load_landmarks(CsvFile(ref_files["landmarks_csv"]))]
  /\ UNCHANGED << ref_files, ref_cached, notRefVars >>

InitRef ==
  /\ ref_files \in [RefSources -> FileStates]
  /\ RefInit
  /\ GeocoderAtRest
  /\ LoaderAtRest
  /\ MatcherAtRest
  /\ ScoreAtRest
  /\ ProcessAtRest
  /\ FnAtRest

NextRef ==
  \/ LoadIndianStates
  \/ LoadLandmarkPatterns
  \/ LoadPincodeCentroids
  \/ LoadLandmarksCsv

SpecRef == InitRef /\ [][NextRef]_vars

(***************************************************************************)
(* Properties of reference-data loading                                    *)
(***************************************************************************)
\* C10: a load from a source that is missing or corrupt does not raise and
\* yields a non-empty table (the built-in defaults).
C10_FallbackOnBadSource ==
  (ref_result.source # "none" /\ ref_files[ref_result.source] \in {"missing", "corrupt"})
    => (~ref_result.raised /\ ref_result.table # << >>)

(***************************************************************************)
(* confidence.py: the source-based ConfidenceScorer.  Scores are integers  *)
(* in units of 1e-6; with landmark confidences drawn from the values the   *)
(* extractor assigns, every product and quotient below is exact.           *)
(***************************************************************************)
\* bool(s) for an Optional[str]
Truthy(s) == s # PyNone /\ s # << >>

Max(a, b) == IF a >= b THEN a ELSE b

Min(a, b) == IF a <= b THEN a ELSE b

Letters == DOMAIN UpperToLower \cup DOMAIN LowerToUpper

\* the characters the regex class \w matches, among those the inputs use
WordChars == Letters \cup Digits \cup {"_"}

\* str.isdigit()
IsDigitStr(s) == s # << >> /\ \A i \in 1..Len(s) : s[i] \in Digits

\* str.isalpha()
IsAlphaStr(s) == s # << >> /\ \A i \in 1..Len(s) : s[i] \in Letters

\* the regex assertion \b between text[p] and text[p+1]
Boundary(text, p) ==
  (p >= 1 /\ p <= Len(text) /\ text[p] \in WordChars)
    # (p + 1 >= 1 /\ p + 1 <= Len(text) /\ text[p + 1] \in WordChars)

\* where a greedy class* that starts at index k stops
SkipWhile(text, k, class) ==
  CHOOSE j \in k..(Len(text) + 1) :
    /\ \A i \in k..(j - 1) : text[i] \in class
    /\ (j <= Len(text) => text[j] \notin class)

\* where an optional single character of class at index k leaves the match
SkipOne(text, k, class) == IF k <= Len(text) /\ text[k] \in class THEN k + 1 ELSE k

\* the literal lit starts at index k of text
LitAt(text, k, lit) ==
  k + Len(lit) - 1 <= Len(text) /\ \A j \in 1..Len(lit) : text[k + j - 1] = lit[j]

CharAt(text, k, class) == k <= Len(text) /\ text[k] \in class

SOURCE_BASE_SCORES ==
  "pincode" :> 850000 @@ "pincode_prefix" :> 650000 @@ "city" :> 550000 @@
  "state" :> 300000 @@ "nominatim" :> 700000 @@ "country_fallback" :> 100000

\* weights in units of 0.01
COMPONENT_WEIGHTS ==
  << [component |-> "pincode", weight |-> 35],
     [component |-> "city", weight |-> 20],
     [component |-> "state", weight |-> 15],
     [component |-> "landmarks", weight |-> 15],
     [component |-> "consistency", weight |-> 15] >>

\* ADJUSTMENTS
ADJUSTMENTS ==
  "multiple_landmarks" :> 50000 @@ "pincode_city_match" :> 80000 @@
  "pincode_state_match" :> 50000 @@ "conflicting_signals" :> -150000 @@
  "normalized_clean" :> 30000 @@ "has_building_number" :> 50000

\* ConfidenceScorer._get_major_cities
get_major_cities ==
  { <<"m","u","m","b","a","i">>,
    <<"d","e","l","h","i">>,
    <<"b","e","n","g","a","l","u","r","u">>,
    <<"c","h","e","n","n","a","i">>,
    <<"k","o","l","k","a","t","a">>,
    <<"h","y","d","e","r","a","b","a","d">>,
    <<"p","u","n","e">>,
    <<"a","h","m","e","d","a","b","a","d">>,
    <<"s","u","r","a","t">>,
    <<"j","a","i","p","u","r">>,
    <<"l","u","c","k","n","o","w">>,
    <<"k","a","n","p","u","r">>,
    <<"n","a","g","p","u","r">>,
    <<"i","n","d","o","r","e">>,
    <<"t","h","a","n","e">>,
    <<"b","h","o","p","a","l">>,
    <<"v","i","s","a","k","h","a","p","a","t","n","a","m">>,
    <<"p","a","t","n","a">>,
    <<"v","a","d","o","d","a","r","a">>,
    <<"g","h","a","z","i","a","b","a","d">>,
    <<"n","o","i","d","a">>,
    <<"g","u","r","u","g","r","a","m">>,
    <<"c","h","a","n","d","i","g","a","r","h">>,
    <<"c","o","i","m","b","a","t","o","r","e">>,
    <<"k","o","c","h","i">> }

\* the table inside _score_consistency
region_city_map ==
  "1" :> { <<"d","e","l","h","i">>,
           <<"c","h","a","n","d","i","g","a","r","h">>,
           <<"s","h","i","m","l","a">>,
           <<"s","r","i","n","a","g","a","r">> } @@
  "2" :> { <<"l","u","c","k","n","o","w">>,
           <<"k","a","n","p","u","r">>,
           <<"a","g","r","a">>,
           <<"n","o","i","d","a">>,
           <<"g","h","a","z","i","a","b","a","d">> } @@
  "3" :> { <<"j","a","i","p","u","r">>,
           <<"a","h","m","e","d","a","b","a","d">>,
           <<"s","u","r","a","t">>,
           <<"v","a","d","o","d","a","r","a">> } @@
  "4" :> { <<"m","u","m","b","a","i">>,
           <<"p","u","n","e">>,
           <<"n","a","g","p","u","r">>,
           <<"t","h","a","n","e">>,
           <<"n","a","s","h","i","k">>,
           <<"b","h","o","p","a","l">> } @@
  "5" :> { <<"h","y","d","e","r","a","b","a","d">>,
           <<"b","e","n","g","a","l","u","r","u">>,
           <<"v","i","s","a","k","h","a","p","a","t","n","a","m">> } @@
  "6" :> { <<"c","h","e","n","n","a","i">>,
           <<"t","h","i","r","u","v","a","n","a","n","t","h","a","p","u","r","a","m">>,
           <<"k","o","c","h","i">>,
           <<"c","o","i","m","b","a","t","o","r","e">> } @@
  "7" :> { <<"k","o","l","k","a","t","a">>,
           <<"b","h","u","b","a","n","e","s","w","a","r">>,
           <<"g","u","w","a","h","a","t","i">> } @@
  "8" :> { <<"p","a","t","n","a">>,
           <<"r","a","n","c","h","i">> }

\* _score_pincode
score_pincode(normalized) ==
  LET pincode == normalized.pincode
  IN IF ~Truthy(pincode) THEN 300000
     ELSE IF Len(pincode) = 6 /\ IsDigitStr(pincode)
                /\ pincode[1] \in {"1", "2", "3", "4", "5", "6", "7", "8"} THEN 950000
     ELSE IF Len(pincode) = 6 /\ IsDigitStr(pincode) /\ pincode[1] = "9" THEN 800000
     ELSE 400000

\* _score_city
score_city(normalized) ==
  LET city == normalized.city
  IN IF ~Truthy(city) THEN 400000
     ELSE IF Lower(city) \in get_major_cities THEN 900000
     ELSE 700000

\* _score_state
score_state(normalized) ==
  LET state == normalized.state
  IN IF ~Truthy(state) THEN 400000
     ELSE IF Len(state) = 2 /\ IsAlphaStr(state) THEN 850000
     ELSE 600000

RECURSIVE SumConfidence(_)
SumConfidence(landmarks) ==
  IF landmarks = << >> THEN 0
  ELSE Head(landmarks).confidence + SumConfidence(Tail(landmarks))

\* _score_landmarks: base * (0.7 + 0.3 * avg_confidence)
score_landmarks(landmarks) ==
  IF landmarks = << >> THEN 400000
  ELSE LET num_landmarks == Len(landmarks)
           base_tenths == IF num_landmarks >= 3 THEN 9
                          ELSE IF num_landmarks = 2 THEN 8 ELSE 7
           avg_confidence == SumConfidence(landmarks) \div num_landmarks
       IN (base_tenths * (700000 + (3 * avg_confidence) \div 10)) \div 10

AllRegionCities == UNION { region_city_map[r] : r \in DOMAIN region_city_map }

\* _score_consistency; city.lower() on a city that is None raises AttributeError
score_consistency(normalized) ==
  LET pincode == normalized.pincode
      city == normalized.city
  IN IF ~Truthy(pincode) THEN [raised |-> FALSE, value |-> 500000]
     ELSE IF city = PyNone THEN [raised |-> TRUE, value |-> 0]
     ELSE LET region == pincode[1]
              expected_cities == IF region \in DOMAIN region_city_map
                                   THEN region_city_map[region] ELSE {}
          IN IF Lower(city) \in expected_cities THEN [raised |-> FALSE, value |-> 950000]
             ELSE IF city # << >> /\ Lower(city) \notin AllRegionCities
               THEN [raised |-> FALSE, value |-> 500000]
             ELSE IF city # << >> THEN [raised |-> FALSE, value |-> 300000]
             ELSE [raised |-> FALSE, value |-> 500000]

\* r'\b\d+[/-]?\d*\s*,' matches starting at index i
BuildingPattern1(text, i) ==
  /\ Boundary(text, i - 1)
  /\ CharAt(text, i, Digits)
  /\ LET a == SkipWhile(text, i, Digits)
         b == SkipOne(text, a, {"/", "-"})
         c == SkipWhile(text, b, Digits)
         d == SkipWhile(text, c, Whitespace)
     IN CharAt(text, d, {","})

\* r'\bhno?\s*\.?\s*\d+' matches starting at index i
BuildingPattern2(text, i) ==
  /\ Boundary(text, i - 1)
  /\ LitAt(text, i, << "h", "n" >>)
  /\ LET a == SkipOne(text, i + 2, {"o"})
         b == SkipWhile(text, a, Whitespace)
         c == SkipOne(text, b, {"."})
         d == SkipWhile(text, c, Whitespace)
     IN CharAt(text, d, Digits)

\* r'\b<word>\s*(?:no\.?)?\s*\d+' matches starting at index i  (flat, plot)
BuildingPattern34(text, i, word) ==
  /\ Boundary(text, i - 1)
  /\ LitAt(text, i, word)
  /\ LET a == SkipWhile(text, i + Len(word), Whitespace)
         b == IF LitAt(text, a, << "n", "o" >>) THEN SkipOne(text, a + 2, {"."}) ELSE a
         c == SkipWhile(text, b, Whitespace)
     IN CharAt(text, c, Digits)

\* r'\bblock\s*[a-z]?\s*[-]?\s*\d+' matches starting at index i
BuildingPattern5(text, i) ==
  /\ Boundary(text, i - 1)
  /\ LitAt(text, i, << "b", "l", "o", "c", "k" >>)
  /\ LET a == SkipWhile(text, i + 5, Whitespace)
         b == SkipOne(text, a, DOMAIN LowerToUpper)
         c == SkipWhile(text, b, Whitespace)
         d == SkipOne(text, c, {"-"})
         e == SkipWhile(text, d, Whitespace)
     IN CharAt(text, e, Digits)

\* _has_building_number
has_building_number(text) ==
  LET text_lower == Lower(text)
  IN \E i \in 1..Len(text_lower) :
       \/ BuildingPattern1(text_lower, i)
       \/ BuildingPattern2(text_lower, i)
       \/ BuildingPattern34(text_lower, i, << "f", "l", "a", "t" >>)
       \/ BuildingPattern34(text_lower, i, << "p", "l", "o", "t" >>)
       \/ BuildingPattern5(text_lower, i)

\* _calculate_adjustments: the dict it returns
adjustments_dict(normalized, landmarks, source) ==
  (IF Len(landmarks) >= 2
     THEN "multiple_landmarks" :> ADJUSTMENTS["multiple_landmarks"] ELSE << >>)
  @@ (IF has_building_number(normalized.original)
        THEN "has_building_number" :> ADJUSTMENTS["has_building_number"] ELSE << >>)
  @@ (IF source = "country_fallback" THEN "fallback_penalty" :> -200000 ELSE << >>)

\* _calculate_adjustments, summed as score does
calculate_adjustments(normalized, landmarks, source) ==
  (IF Len(landmarks) >= 2 THEN ADJUSTMENTS["multiple_landmarks"] ELSE 0)
  + (IF has_building_number(normalized.original)
       THEN ADJUSTMENTS["has_building_number"] ELSE 0)
  + (IF source = "country_fallback" THEN -200000 ELSE 0)

\* _get_confidence_level
get_confidence_level_label(score) ==
  IF score >= 850000 THEN "high"
  ELSE IF score >= 650000 THEN "medium"
  ELSE IF score >= 400000 THEN "low"
  ELSE "very_low"

\* round(x, 3), ties to even
round3(x) ==
  LET q == x \div 1000
      r == x % 1000
  IN IF r < 500 THEN q * 1000
     ELSE IF r > 500 THEN (q + 1) * 1000
     ELSE IF q % 2 = 0 THEN q * 1000 ELSE (q + 1) * 1000

\* final_score = max(0.05, min(0.99, final_score))
clamp_score(final_score) == Max(50000, Min(990000, final_score))

RECURSIVE Contributions(_, _)
\* the loop over self.weights: weight * (component_score - 0.5) * 2, summed
Contributions(weights, component_scores) ==
  IF weights = << >> THEN 0
  ELSE LET w == Head(weights)
       IN (w.weight * (component_scores[w.component] - 500000) * 2) \div 100
          + Contributions(Tail(weights), component_scores)

\* ConfidenceScorer.score(normalized, landmarks, geo_result) of confidence.py
source_score(normalized, landmarks, source) ==
  LET base_score == IF source \in DOMAIN SOURCE_BASE_SCORES
                      THEN SOURCE_BASE_SCORES[source] ELSE 100000
      consistency == score_consistency(normalized)
  IN IF consistency.raised
       THEN [raised |-> TRUE, score |-> 0, final |-> 0, level |-> "none",
             adjustments |-> << >>]
       ELSE LET component_scores ==
                  "pincode" :> score_pincode(normalized) @@
                  "city" :> score_city(normalized) @@
                  "state" :> score_state(normalized) @@
                  "landmarks" :> score_landmarks(landmarks) @@
                  "consistency" :> consistency.value
                final_score ==
                  clamp_score(base_score
                              + Contributions(COMPONENT_WEIGHTS, component_scores)
                              + calculate_adjustments(normalized, landmarks, source))
            IN [raised |-> FALSE, score |-> round3(final_score), final |-> final_score,
                level |-> get_confidence_level_label(final_score),
                adjustments |-> adjustments_dict(normalized, landmarks, source)]

(***************************************************************************)
(* confidence_scorer.py: the component-based ConfidenceScorer              *)
(***************************************************************************)
\* weights in units of 0.01
FEATURE_WEIGHTS ==
  << [feature |-> "nlp_confidence", weight |-> 20],
     [feature |-> "landmark_similarity", weight |-> 30],
     [feature |-> "geo_distance", weight |-> 25],
     [feature |-> "density_score", weight |-> 15],
     [feature |-> "component_count", weight |-> 10] >>

\* math.exp(-distance_m / MAX_REASONABLE_DISTANCE_M), tabulated to six places
\* for the distances the inputs use
ExpDecay ==
  10 :> 980199 @@ 25 :> 951229 @@ 30 :> 941765 @@ 40 :> 923116 @@ 50 :> 904837 @@
  55 :> 895834 @@ 70 :> 869358 @@ 75 :> 860708 @@ 80 :> 852144 @@ 85 :> 843665 @@
  95 :> 826959 @@ 100 :> 818731 @@ 120 :> 786628 @@ 125 :> 778801 @@
  145 :> 748264 @@ 150 :> 740818 @@ 195 :> 677057 @@ 200 :> 670320 @@
  245 :> 612626 @@ 500 :> 367879 @@ 2000 :> 18316

\* distance_to_confidence
distance_to_confidence(distance_m) ==
  IF distance_m <= 0 THEN 1000000 ELSE ExpDecay[distance_m]

RECURSIVE SumSeq(_)
SumSeq(s) == IF s = << >> THEN 0 ELSE Head(s) + SumSeq(Tail(s))

\* aggregate_landmark_scores: 0.6 * best + 0.4 * average of the others
aggregate_landmark_scores(landmark_scores) ==
  IF landmark_scores = << >> THEN 0
  ELSE IF Len(landmark_scores) = 1 THEN landmark_scores[1]
  ELSE LET best_score == CHOOSE x \in { landmark_scores[i] : i \in 1..Len(landmark_scores) } :
                            \A i \in 1..Len(landmark_scores) : landmark_scores[i] <= x
           other_avg == (SumSeq(landmark_scores) - best_score)
                           \div (Len(landmark_scores) - 1)
       IN (6 * best_score + 4 * other_avg) \div 10

\* count_components; geo_features holds the lengths of the lists
count_components(geo_features) ==
  geo_features.directions + geo_features.landmarks
    + geo_features.street_numbers + geo_features.building_numbers

\* component_count_to_score
component_count_to_score(count) ==
  IF count = 0 THEN 0
  ELSE IF count <= 2 THEN 300000 + count * 150000
  ELSE IF count <= 4 THEN 550000 + (count - 2) * 150000
  ELSE Min(1000000, 850000 + (count - 4) * 50000)

\* get_confidence_level of confidence_scorer.py
get_confidence_level(score) ==
  IF score >= 800000 THEN "HIGH"
  ELSE IF score >= 600000 THEN "MEDIUM"
  ELSE IF score >= 400000 THEN "LOW"
  ELSE "VERY_LOW"

\* _calculate_components
calculate_components(nlp_conf, landmark_scores, geo_features, density_score) ==
  "nlp_confidence" :> Max(0, Min(1000000, nlp_conf)) @@
  "landmark_similarity" :> aggregate_landmark_scores(landmark_scores) @@
  "geo_distance" :> distance_to_confidence(IF geo_features.has_distance
                                             THEN geo_features.distance_m ELSE 100) @@
  "density_score" :> Max(0, Min(1000000, density_score)) @@
  "component_count" :> component_count_to_score(count_components(geo_features))

RECURSIVE WeightedTotal(_, _)
WeightedTotal(weights, component_scores) ==
  IF weights = << >> THEN 0
  ELSE (component_scores[Head(weights).feature] * Head(weights).weight) \div 100
       + WeightedTotal(Tail(weights), component_scores)

RECURSIVE SumWeights(_)
SumWeights(weights) ==
  IF weights = << >> THEN 0 ELSE Head(weights).weight + SumWeights(Tail(weights))

\* _weighted_sum: total / weight_sum * sum(self.weights.values())
weighted_sum(component_scores) ==
  LET total == WeightedTotal(FEATURE_WEIGHTS, component_scores)
      weight_sum == SumWeights(FEATURE_WEIGHTS)
  IN IF weight_sum > 0
       THEN (((total * 100) \div weight_sum) * SumWeights(FEATURE_WEIGHTS)) \div 100
       ELSE 500000

\* ConfidenceScorer.score(nlp_conf, landmark_scores, geo_features, density_score)
\* of confidence_scorer.py, on the weighted-sum path; ConfidenceResult.to_dict
\* rounds the score to three places
component_score(nlp_conf, landmark_scores, geo_features, density_score) ==
  LET component_scores ==
        calculate_components(nlp_conf, landmark_scores, geo_features, density_score)
      final_score == Max(0, Min(1000000, weighted_sum(component_scores)))
  IN [raised |-> FALSE, score |-> round3(final_score), final |-> final_score,
      level |-> get_confidence_level(final_score), adjustments |-> << >>]

(***************************************************************************)
(* Calls of the two scorers                                                *)
(***************************************************************************)
ScorerPincodes ==
  { PyNone, <<"4","0","0","0","6","9">>, <<"9","9","9","9","9","9">>,
    <<"0","1","2","3","4","5">>, <<"4","0","0","0","6">> }

ScorerCities ==
  { PyNone, <<"M","u","m","b","a","i">>, <<"D","e","l","h","i">>,
    <<"A","t","l","a","n","t","i","s">> }

ScorerStates == { PyNone, <<"M","H">>, <<"M","a","h","a","r","a","s","h","t","r","a">> }

ScorerOriginals ==
  { << >>, <<"4","2",","," ","m","g"," ","r","o","a","d">>,
    <<"f","l","a","t"," ","n","o"," ","2","0","3">>,
    <<"m","g"," ","r","o","a","d"," ","m","u","m","b","a","i">> }

ScorerNormalized ==
  { Normalized(p, c, s, o) :
      p \in ScorerPincodes, c \in ScorerCities, s \in ScorerStates, o \in ScorerOriginals }

\* an extracted landmark, as far as the scorer reads it
Lm(confidence) == [confidence |-> confidence]

\* lists the extractor can return: pattern matches (0.9) before positional ones (0.75)
LandmarkLists ==
  { << >>, << Lm(900000) >>, << Lm(750000) >>, << Lm(900000), Lm(750000) >>,
    << Lm(900000), Lm(900000), Lm(750000) >> }

GeoSources ==
  {"pincode", "pincode_prefix", "city", "state", "nominatim", "country_fallback",
   "unknown"}

NlpConfidences == {-200000, 0, 800000, 1500000}

LandmarkScoreLists ==
  { << >>, << 870000 >>, << 870000, 720000 >>, << 2000000, 1900000 >>, << -1000000 >> }

GeoFeatures ==
  { [has_distance |-> h, distance_m |-> d, directions |-> n1, landmarks |-> n2,
     street_numbers |-> n3, building_numbers |-> n4] :
      h \in {TRUE}, d \in {-5, 0, 500, 2000},
      n1 \in {0, 1, 2}, n2 \in {0, 1, 2}, n3 \in {0, 1}, n4 \in {0, 1} }
  \cup
  { [has_distance |-> FALSE, distance_m |-> 0, directions |-> n1, landmarks |-> n2,
     street_numbers |-> n3, building_numbers |-> n4] :
      n1 \in {0, 1, 2}, n2 \in {0, 1, 2}, n3 \in {0, 1}, n4 \in {0, 1} }

DensityScores == {0, 700000, 1300000}

\* the float the code compares with a level threshold lies within a rounding
\* error of the exact value: at a threshold the label may fall on either side
float_neighbours(x) == {x - 1, x, x + 1}

\* confidence.ConfidenceScorer().score(normalized, landmarks, {"source": source})
SourceScoreCall(normalized, landmarks, source) ==
  /\ s_pc = "idle"
  /\ s_call' = [NoCall EXCEPT !.scorer = "source", !.normalized = normalized,
                              !.landmarks = landmarks, !.source = source]
  /\ LET r == source_score(normalized, landmarks, source)
     IN IF r.raised THEN s_out' = r
        ELSE \E f \in float_neighbours(r.final) :
               s_out' = [r EXCEPT !.level = get_confidence_level_label(f)]
  /\ s_pc' = "returned"
  /\ UNCHANGED notScoreVars

\* confidence_scorer.ConfidenceScorer().score(nlp_conf, landmark_scores, geo_features,
\* density_score)
ComponentScoreCall(nlp_conf, landmark_scores, geo_features, density_score) ==
  /\ s_pc = "idle"
  /\ s_call' = [NoCall EXCEPT !.scorer = "component", !.nlp_conf = nlp_conf,
                              !.landmark_scores = landmark_scores,
                              !.geo_features = geo_features,
                              !.density_score = density_score]
  /\ LET r == component_score(nlp_conf, landmark_scores, geo_features, density_score)
     IN \E f \in float_neighbours(r.final) :
          s_out' = [r EXCEPT !.level = get_confidence_level(f)]
  /\ s_pc' = "returned"
  /\ UNCHANGED notScoreVars

\* the caller has the score (or the exception)
ScoreTaken ==
  /\ s_pc = "returned"
  /\ s_pc' = "idle"
  /\ s_call' = NoCall
  /\ s_out' = NoScore
  /\ UNCHANGED notScoreVars

InitScore ==
  /\ ScoreAtRest
  /\ GeocoderAtRest
  /\ LoaderAtRest
  /\ MatcherAtRest
  /\ RefAtRest
  /\ ProcessAtRest
  /\ FnAtRest

NextScore ==
  \/ \E normalized \in ScorerNormalized, landmarks \in LandmarkLists, source \in GeoSources :
        SourceScoreCall(normalized, landmarks, source)
  \/ \E nlp_conf \in NlpConfidences, landmark_scores \in LandmarkScoreLists,
        geo_features \in GeoFeatures, density_score \in DensityScores :
        ComponentScoreCall(nlp_conf, landmark_scores, geo_features, density_score)
  \/ ScoreTaken

SpecScore == InitScore /\ [][NextScore]_vars

(***************************************************************************)
(* Properties of the scorers                                               *)
(***************************************************************************)
\* C4: every call of either scorer returns a score, in [0.05, 0.99] from the
\* source-based scorer and in [0, 1] from the component-based scorer.
C4_ScoresBounded ==
  s_pc = "returned" =>
    /\ ~s_out.raised
    /\ s_call.scorer = "source" => (50000 <= s_out.score /\ s_out.score <= 990000)
    /\ s_call.scorer = "component" => (0 <= s_out.score /\ s_out.score <= 1000000)

(***************************************************************************)
(* normalizer.py and the text utilities of utils.py.  Inputs are ASCII,    *)
(* on which unicodedata.normalize("NFKC", .) changes nothing.              *)
(*                                                                         *)
(* A text that one pass hands to the next is bound by a set constructor    *)
(* ({ F(t) : t \in {G(x)} }), so that it is computed once, and the scans   *)
(* over a text are recursive functions of the index.                       *)
(***************************************************************************)
\* the element of a one-element set
Value(S) == CHOOSE v \in S : TRUE

LowerChar(c) == IF c \in DOMAIN UpperToLower THEN UpperToLower[c] ELSE c

UpperChar(c) == IF c \in DOMAIN LowerToUpper THEN LowerToUpper[c] ELSE c

\* str.title(): a letter is upper-cased after a non-letter, lower-cased after a letter
Title(s) ==
  [i \in 1..Len(s) |-> IF i = 1 \/ s[i - 1] \notin Letters
                         THEN UpperChar(s[i]) ELSE LowerChar(s[i])]

\* str.strip(chars)
StripChars(s, chars) ==
  LET keep == {i \in 1..Len(s) : s[i] \notin chars}
  IN IF keep = {} THEN << >>
     ELSE SubSeq(s, CHOOSE i \in keep : \A j \in keep : i <= j,
                    CHOOSE i \in keep : \A j \in keep : j <= i)

\* every maximal run of at least min characters of class becomes one character:
\* rep if it is given, else the first character of the run
CollapseRuns(text, class, min, rep) ==
  LET n == Len(text)
      out[i \in 1..(n + 1)] ==
        IF i > n THEN << >>
        ELSE IF text[i] \notin class THEN << text[i] >> \o out[i + 1]
        ELSE LET e == SkipWhile(text, i, class)
             IN IF e - i >= min
                  THEN (IF rep = << >> THEN << text[i] >> ELSE rep) \o out[e]
                  ELSE << text[i] >> \o out[i + 1]
  IN out[1]

\* re.sub(r'\s+', ' ', text)
CollapseWhitespace(text) == CollapseRuns(text, Whitespace, 1, << " " >>)

\* utils.clean_text
clean_text(text) ==
  IF text = << >> THEN << >>
  ELSE Value({ Strip(collapsed) :
               collapsed \in { CollapseWhitespace(lowered) : lowered \in {Lower(text)} } })

\* utils.normalize_whitespace
normalize_whitespace(text) ==
  Value({ Strip(collapsed) : collapsed \in {CollapseWhitespace(text)} })

\* r'\b([1-9]\d{5})\b' matches starting at index i
PincodePlainAt(text, i) ==
  /\ Boundary(text, i - 1)
  /\ i + 5 <= Len(text)
  /\ text[i] \in Digits \ {"0"}
  /\ \A j \in 1..5 : text[i + j] \in Digits
  /\ Boundary(text, i + 5)

\* r'\b([1-9]\d{2})[\s\-]?(\d{3})\b' matches starting at index i with the separator
PincodeSplitAt(text, i) ==
  /\ Boundary(text, i - 1)
  /\ i + 6 <= Len(text)
  /\ text[i] \in Digits \ {"0"}
  /\ text[i + 1] \in Digits /\ text[i + 2] \in Digits
  /\ text[i + 3] \in Whitespace \cup {"-"}
  /\ \A j \in 4..6 : text[i + j] \in Digits
  /\ Boundary(text, i + 6)

\* the least element of a set of indexes, 0 when it is empty (re.search)
Leftmost(hits) == IF hits = {} THEN 0 ELSE CHOOSE i \in hits : \A j \in hits : i <= j

\* utils.extract_pincode: the first pattern whose leftmost match validates
extract_pincode(text) ==
  Value({ IF p # 0 /\ validate_pincode(SubSeq(text, p, p + 5))
            THEN SubSeq(text, p, p + 5)
          ELSE IF q # 0 /\ validate_pincode(SubSeq(text, q, q + 2)
                                              \o SubSeq(text, q + 4, q + 6))
            THEN SubSeq(text, q, q + 2) \o SubSeq(text, q + 4, q + 6)
          ELSE PyNone :
          p \in {Leftmost({i \in 1..Len(text) : PincodePlainAt(text, i)})},
          q \in {Leftmost({i \in 1..Len(text) : PincodeSplitAt(text, i)})} })

DirectionWords ==
  "e" :> << "e", "a", "s", "t" >> @@ "w" :> << "w", "e", "s", "t" >> @@
  "n" :> << "n", "o", "r", "t", "h" >> @@ "s" :> << "s", "o", "u", "t", "h" >>

\* _expand_direction_suffixes: re.sub(r'\(([ewns])\)', ...)
expand_direction_suffixes(text) ==
  LET n == Len(text)
      out[i \in 1..(n + 1)] ==
        IF i > n THEN << >>
        ELSE IF /\ i + 2 <= n
                /\ text[i] = "("
                /\ LowerChar(text[i + 1]) \in DOMAIN DirectionWords
                /\ text[i + 2] = ")"
          THEN DirectionWords[LowerChar(text[i + 1])] \o out[i + 3]
          ELSE << text[i] >> \o out[i + 1]
  IN out[1]

\* the key, compared without case, starts at index i of text
KeyAt(text, i, key) ==
  /\ i + Len(key) - 1 <= Len(text)
  /\ \A j \in 1..Len(key) : LowerChar(text[i + j - 1]) = key[j]

\* length of the match of  key \.? \b  (optDot)  or  key \b  that starts at i,
\* 0 when there is none; the optional dot is tried first
KeyMatchLen(text, i, key, optDot) ==
  IF ~KeyAt(text, i, key) THEN 0
  ELSE IF optDot /\ CharAt(text, i + Len(key), {"."}) /\ Boundary(text, i + Len(key))
    THEN Len(key) + 1
  ELSE IF Boundary(text, i + Len(key) - 1) THEN Len(key)
  ELSE 0

\* the alternative of \b(k1|k2|...) that matches at i: the first in the
\* alternation with which the rest of the pattern matches too
AlternationAt(text, i, table, optDot) ==
  IF ~Boundary(text, i - 1) THEN [k |-> 0, len |-> 0]
  ELSE Value({ [k |-> k,
                len |-> IF k = 0 THEN 0 ELSE KeyMatchLen(text, i, table[k].key, optDot)] :
               k \in {Leftmost({x \in 1..Len(table) :
                                  KeyMatchLen(text, i, table[x].key, optDot) > 0})} })

\* pattern.sub(replace, text) for the pattern compiled from table
SubAlternation(text, table, optDot) ==
  LET n == Len(text)
      out[i \in 1..(n + 1)] ==
        IF i > n THEN << >>
        ELSE LET m == AlternationAt(text, i, table, optDot)
             IN IF m.k = 0 THEN << text[i] >> \o out[i + 1]
                ELSE table[m.k].value \o out[i + m.len]
  IN out[1]

ENGLISH_ABBREVIATIONS ==
  << [key |-> <<"b","e","s","i","d","e">>,
      value |-> <<"b","e","s","i","d","e">>],
     [key |-> <<"m","a","n","d","a","l">>,
      value |-> <<"m","a","n","d","a","l">>],
     [key |-> <<"t","a","l","u","k">>,
      value |-> <<"t","a","l","u","k">>],
     [key |-> <<"b","l","v","d">>,
      value |-> <<"b","o","u","l","e","v","a","r","d">>],
     [key |-> <<"b","l","d","g">>,
      value |-> <<"b","u","i","l","d","i","n","g">>],
     [key |-> <<"a","p","p","t">>,
      value |-> <<"a","p","a","r","t","m","e","n","t">>],
     [key |-> <<"f","l","a","t">>,
      value |-> <<"f","l","a","t">>],
     [key |-> <<"h",".","n","o">>,
      value |-> <<"h","o","u","s","e"," ","n","u","m","b","e","r">>],
     [key |-> <<"b","h","n","d">>,
      value |-> <<"b","e","h","i","n","d">>],
     [key |-> <<"e","x","t","n">>,
      value |-> <<"e","x","t","e","n","s","i","o","n">>],
     [key |-> <<"d","i","s","t">>,
      value |-> <<"d","i","s","t","r","i","c","t">>],
     [key |-> <<"h","o","s","p">>,
      value |-> <<"h","o","s","p","i","t","a","l">>],
     [key |-> <<"g","o","v","t">>,
      value |-> <<"g","o","v","e","r","n","m","e","n","t">>],
     [key |-> <<"i","n","d","l">>,
      value |-> <<"i","n","d","u","s","t","r","i","a","l">>],
     [key |-> <<"c","o","m","m">>,
      value |-> <<"c","o","m","m","e","r","c","i","a","l">>],
     [key |-> <<"c","h","s","l">>,
      value |-> <<"c","o","o","p","e","r","a","t","i","v","e"," ","h","o","u","s","i","n","g"," ","s","o","c","i","e","t","y"," ","l","i","m","i","t","e","d">>],
     [key |-> <<"a","v","e">>,
      value |-> <<"a","v","e","n","u","e">>],
     [key |-> <<"h","w","y">>,
      value |-> <<"h","i","g","h","w","a","y">>],
     [key |-> <<"b","l","k">>,
      value |-> <<"b","l","o","c","k">>],
     [key |-> <<"f","l","r">>,
      value |-> <<"f","l","o","o","r">>],
     [key |-> <<"a","p","t">>,
      value |-> <<"a","p","a","r","t","m","e","n","t">>],
     [key |-> <<"f","l","t">>,
      value |-> <<"f","l","a","t">>],
     [key |-> <<"h","s","e">>,
      value |-> <<"h","o","u","s","e">>],
     [key |-> <<"h","n","o">>,
      value |-> <<"h","o","u","s","e"," ","n","u","m","b","e","r">>],
     [key |-> <<"o","p","p">>,
      value |-> <<"o","p","p","o","s","i","t","e">>],
     [key |-> <<"a","d","j">>,
      value |-> <<"a","d","j","a","c","e","n","t">>],
     [key |-> <<"b","/","h">>,
      value |-> <<"b","e","h","i","n","d">>],
     [key |-> <<"n","x","t">>,
      value |-> <<"n","e","x","t"," ","t","o">>],
     [key |-> <<"s","e","c">>,
      value |-> <<"s","e","c","t","o","r">>],
     [key |-> <<"e","x","t">>,
      value |-> <<"e","x","t","e","n","s","i","o","n">>],
     [key |-> <<"p","l","t">>,
      value |-> <<"p","l","o","t">>],
     [key |-> <<"d","i","v">>,
      value |-> <<"d","i","v","i","s","i","o","n">>],
     [key |-> <<"p",".","o">>,
      value |-> <<"p","o","s","t"," ","o","f","f","i","c","e">>],
     [key |-> <<"p",".","s">>,
      value |-> <<"p","o","l","i","c","e"," ","s","t","a","t","i","o","n">>],
     [key |-> <<"p","i","n">>,
      value |-> <<"p","i","n","c","o","d","e">>],
     [key |-> <<"m","k","t">>,
      value |-> <<"m","a","r","k","e","t">>],
     [key |-> <<"s","t","n">>,
      value |-> <<"s","t","a","t","i","o","n">>],
     [key |-> <<"r","l","y">>,
      value |-> <<"r","a","i","l","w","a","y">>],
     [key |-> <<"p","v","t">>,
      value |-> <<"p","r","i","v","a","t","e">>],
     [key |-> <<"l","t","d">>,
      value |-> <<"l","i","m","i","t","e","d">>],
     [key |-> <<"i","n","d">>,
      value |-> <<"i","n","d","u","s","t","r","i","a","l">>],
     [key |-> <<"r","e","s">>,
      value |-> <<"r","e","s","i","d","e","n","t","i","a","l">>],
     [key |-> <<"s","o","c">>,
      value |-> <<"s","o","c","i","e","t","y">>],
     [key |-> <<"c","h","s">>,
      value |-> <<"c","o","o","p","e","r","a","t","i","v","e"," ","h","o","u","s","i","n","g"," ","s","o","c","i","e","t","y">>],
     [key |-> <<"n","e">>,
      value |-> <<"n","o","r","t","h","e","a","s","t">>],
     [key |-> <<"n","w">>,
      value |-> <<"n","o","r","t","h","w","e","s","t">>],
     [key |-> <<"s","e">>,
      value |-> <<"s","o","u","t","h","e","a","s","t">>],
     [key |-> <<"s","w">>,
      value |-> <<"s","o","u","t","h","w","e","s","t">>],
     [key |-> <<"r","d">>,
      value |-> <<"r","o","a","d">>],
     [key |-> <<"s","t">>,
      value |-> <<"s","t","r","e","e","t">>],
     [key |-> <<"l","n">>,
      value |-> <<"l","a","n","e">>],
     [key |-> <<"n","h">>,
      value |-> <<"n","a","t","i","o","n","a","l"," ","h","i","g","h","w","a","y">>],
     [key |-> <<"s","h">>,
      value |-> <<"s","t","a","t","e"," ","h","i","g","h","w","a","y">>],
     [key |-> <<"f","l">>,
      value |-> <<"f","l","o","o","r">>],
     [key |-> <<"n","r">>,
      value |-> <<"n","e","a","r">>],
     [key |-> <<"b","h">>,
      value |-> <<"b","e","h","i","n","d">>],
     [key |-> <<"p","h">>,
      value |-> <<"p","h","a","s","e">>],
     [key |-> <<"t","q">>,
      value |-> <<"t","a","l","u","k">>],
     [key |-> <<"p","o">>,
      value |-> <<"p","o","s","t"," ","o","f","f","i","c","e">>],
     [key |-> <<"p","s">>,
      value |-> <<"p","o","l","i","c","e"," ","s","t","a","t","i","o","n">>],
     [key |-> <<"c","o">>,
      value |-> <<"c","o","m","p","a","n","y">>],
     [key |-> <<"n">>,
      value |-> <<"n","o","r","t","h">>],
     [key |-> <<"s">>,
      value |-> <<"s","o","u","t","h">>],
     [key |-> <<"e">>,
      value |-> <<"e","a","s","t">>],
     [key |-> <<"w">>,
      value |-> <<"w","e","s","t">>] >>

\* TRANSLITERATIONS, longest key first
TRANSLITERATIONS ==
  << [key |-> <<"g","u","r","u","d","w","a","r","a">>,
      value |-> <<"g","u","r","u","d","w","a","r","a">>],
     [key |-> <<"m","o","h","a","l","l","a">>,
      value |-> <<"l","o","c","a","l","i","t","y">>],
     [key |-> <<"e","n","c","l","a","v","e">>,
      value |-> <<"e","n","c","l","a","v","e">>],
     [key |-> <<"d","a","k","s","h","i","n">>,
      value |-> <<"s","o","u","t","h">>],
     [key |-> <<"p","a","s","c","h","i","m">>,
      value |-> <<"w","e","s","t">>],
     [key |-> <<"m","o","h","a","l","a">>,
      value |-> <<"l","o","c","a","l","i","t","y">>],
     [key |-> <<"t","i","r","a","h","a">>,
      value |-> <<"t","h","r","e","e","-","w","a","y"," ","j","u","n","c","t","i","o","n">>],
     [key |-> <<"m","a","i","d","a","n">>,
      value |-> <<"g","r","o","u","n","d">>],
     [key |-> <<"t","a","l","a","a","b">>,
      value |-> <<"l","a","k","e"," ","a","r","e","a">>],
     [key |-> <<"b","h","a","v","a","n">>,
      value |-> <<"b","u","i","l","d","i","n","g">>],
     [key |-> <<"b","h","a","w","a","n">>,
      value |-> <<"b","u","i","l","d","i","n","g">>],
     [key |-> <<"h","a","v","e","l","i">>,
      value |-> <<"m","a","n","s","i","o","n">>],
     [key |-> <<"m","a","n","d","i","r">>,
      value |-> <<"t","e","m","p","l","e">>],
     [key |-> <<"m","a","s","j","i","d">>,
      value |-> <<"m","o","s","q","u","e">>],
     [key |-> <<"d","a","r","g","a","h">>,
      value |-> <<"d","a","r","g","a","h">>],
     [key |-> <<"b","a","z","a","a","r">>,
      value |-> <<"m","a","r","k","e","t">>],
     [key |-> <<"g","u","l","l","y">>,
      value |-> <<"l","a","n","e">>],
     [key |-> <<"s","a","d","a","k">>,
      value |-> <<"r","o","a","d">>],
     [key |-> <<"r","a","s","t","a">>,
      value |-> <<"r","o","a","d">>],
     [key |-> <<"n","a","g","a","r">>,
      value |-> <<"c","o","l","o","n","y">>],
     [key |-> <<"p","u","r","a","m">>,
      value |-> <<"c","o","l","o","n","y">>],
     [key |-> <<"v","i","h","a","r">>,
      value |-> <<"r","e","s","i","d","e","n","t","i","a","l"," ","a","r","e","a">>],
     [key |-> <<"c","h","o","w","k">>,
      value |-> <<"s","q","u","a","r","e">>],
     [key |-> <<"c","h","a","w","k">>,
      value |-> <<"s","q","u","a","r","e">>],
     [key |-> <<"c","h","a","u","k">>,
      value |-> <<"s","q","u","a","r","e">>],
     [key |-> <<"t","a","l","a","b">>,
      value |-> <<"l","a","k","e"," ","a","r","e","a">>],
     [key |-> <<"s","a","d","a","n">>,
      value |-> <<"b","u","i","l","d","i","n","g">>],
     [key |-> <<"k","o","t","h","i">>,
      value |-> <<"b","u","n","g","a","l","o","w">>],
     [key |-> <<"d","u","k","a","n">>,
      value |-> <<"s","h","o","p">>],
     [key |-> <<"b","a","z","a","r">>,
      value |-> <<"m","a","r","k","e","t">>],
     [key |-> <<"m","a","n","d","i">>,
      value |-> <<"m","a","r","k","e","t">>],
     [key |-> <<"u","t","t","a","r">>,
      value |-> <<"n","o","r","t","h">>],
     [key |-> <<"g","a","l","i">>,
      value |-> <<"l","a","n","e">>],
     [key |-> <<"m","a","r","g">>,
      value |-> <<"r","o","a","d">>],
     [key |-> <<"p","a","t","h">>,
      value |-> <<"r","o","a","d">>],
     [key |-> <<"p","a","r","a">>,
      value |-> <<"l","o","c","a","l","i","t","y">>],
     [key |-> <<"p","u","r","i">>,
      value |-> <<"c","o","l","o","n","y">>],
     [key |-> <<"w","a","d","i">>,
      value |-> <<"c","o","l","o","n","y">>],
     [key |-> <<"w","a","d","a">>,
      value |-> <<"c","o","l","o","n","y">>],
     [key |-> <<"p","e","t","h">>,
      value |-> <<"a","r","e","a">>],
     [key |-> <<"b","a","g","h">>,
      value |-> <<"g","a","r","d","e","n"," ","a","r","e","a">>],
     [key |-> <<"k","u","n","j">>,
      value |-> <<"r","e","s","i","d","e","n","t","i","a","l"," ","a","r","e","a">>],
     [key |-> <<"m","o","r","h">>,
      value |-> <<"t","u","r","n">>],
     [key |-> <<"p","u","l","l">>,
      value |-> <<"b","r","i","d","g","e">>],
     [key |-> <<"k","u","n","d">>,
      value |-> <<"p","o","n","d"," ","a","r","e","a">>],
     [key |-> <<"g","h","a","r">>,
      value |-> <<"h","o","u","s","e">>],
     [key |-> <<"h","a","a","t">>,
      value |-> <<"m","a","r","k","e","t">>],
     [key |-> <<"p","u","r","v">>,
      value |-> <<"e","a","s","t">>],
     [key |-> <<"p","e","t">>,
      value |-> <<"a","r","e","a">>],
     [key |-> <<"m","o","d">>,
      value |-> <<"t","u","r","n">>],
     [key |-> <<"p","u","l">>,
      value |-> <<"b","r","i","d","g","e">>] >>

\* CITY_ALIASES, longest key first
CITY_ALIASES ==
  << [key |-> <<"p","o","n","d","i","c","h","e","r","r","y">>,
      value |-> <<"p","u","d","u","c","h","e","r","r","y">>],
     [key |-> <<"t","r","i","v","a","n","d","r","u","m">>,
      value |-> <<"t","h","i","r","u","v","a","n","a","n","t","h","a","p","u","r","a","m">>],
     [key |-> <<"b","a","n","g","a","l","o","r","e">>,
      value |-> <<"b","e","n","g","a","l","u","r","u">>],
     [key |-> <<"m","a","n","g","a","l","o","r","e">>,
      value |-> <<"m","a","n","g","a","l","u","r","u">>],
     [key |-> <<"a","l","l","a","h","a","b","a","d">>,
      value |-> <<"p","r","a","y","a","g","r","a","j">>],
     [key |-> <<"c","a","l","c","u","t","t","a">>,
      value |-> <<"k","o","l","k","a","t","a">>],
     [key |-> <<"s","h","i","m","o","g","a">>,
      value |-> <<"s","h","i","v","a","m","o","g","g","a">>],
     [key |-> <<"b","e","l","g","a","u","m">>,
      value |-> <<"b","e","l","a","g","a","v","i">>],
     [key |-> <<"b","a","n","a","r","a","s">>,
      value |-> <<"v","a","r","a","n","a","s","i">>],
     [key |-> <<"b","e","n","a","r","e","s">>,
      value |-> <<"v","a","r","a","n","a","s","i">>],
     [key |-> <<"g","u","r","g","a","o","n">>,
      value |-> <<"g","u","r","u","g","r","a","m">>],
     [key |-> <<"b","o","m","b","a","y">>,
      value |-> <<"m","u","m","b","a","i">>],
     [key |-> <<"m","a","d","r","a","s">>,
      value |-> <<"c","h","e","n","n","a","i">>],
     [key |-> <<"b","a","r","o","d","a">>,
      value |-> <<"v","a","d","o","d","a","r","a">>],
     [key |-> <<"c","o","c","h","i","n">>,
      value |-> <<"k","o","c","h","i">>],
     [key |-> <<"m","y","s","o","r","e">>,
      value |-> <<"m","y","s","u","r","u">>],
     [key |-> <<"p","o","o","n","a">>,
      value |-> <<"p","u","n","e">>],
     [key |-> <<"v","i","z","a","g">>,
      value |-> <<"v","i","s","a","k","h","a","p","a","t","n","a","m">>] >>

\* the list inside _extract_city
major_cities ==
  << <<"m","u","m","b","a","i">>,
     <<"d","e","l","h","i">>,
     <<"b","e","n","g","a","l","u","r","u">>,
     <<"c","h","e","n","n","a","i">>,
     <<"k","o","l","k","a","t","a">>,
     <<"h","y","d","e","r","a","b","a","d">>,
     <<"p","u","n","e">>,
     <<"a","h","m","e","d","a","b","a","d">>,
     <<"s","u","r","a","t">>,
     <<"j","a","i","p","u","r">>,
     <<"l","u","c","k","n","o","w">>,
     <<"k","a","n","p","u","r">>,
     <<"n","a","g","p","u","r">>,
     <<"i","n","d","o","r","e">>,
     <<"t","h","a","n","e">>,
     <<"b","h","o","p","a","l">>,
     <<"v","i","s","a","k","h","a","p","a","t","n","a","m">>,
     <<"p","a","t","n","a">>,
     <<"v","a","d","o","d","a","r","a">>,
     <<"g","h","a","z","i","a","b","a","d">>,
     <<"l","u","d","h","i","a","n","a">>,
     <<"a","g","r","a">>,
     <<"n","a","s","h","i","k">>,
     <<"f","a","r","i","d","a","b","a","d">>,
     <<"m","e","e","r","u","t">>,
     <<"r","a","j","k","o","t">>,
     <<"v","a","r","a","n","a","s","i">>,
     <<"s","r","i","n","a","g","a","r">>,
     <<"a","u","r","a","n","g","a","b","a","d">>,
     <<"d","h","a","n","b","a","d">>,
     <<"a","m","r","i","t","s","a","r">>,
     <<"n","a","v","i"," ","m","u","m","b","a","i">>,
     <<"n","o","i","d","a">>,
     <<"g","u","r","u","g","r","a","m">>,
     <<"g","u","w","a","h","a","t","i">> >>

\* _expand_abbreviations: self._abbrev_re.sub(replace_abbrev, text)
expand_abbreviations(text) == SubAlternation(text, ENGLISH_ABBREVIATIONS, TRUE)

\* _handle_transliterations: self._trans_re.sub(replace_trans, text)
handle_transliterations(text) == SubAlternation(text, TRANSLITERATIONS, FALSE)

\* _normalize_city_names: self._city_re.sub(replace_city, text)
normalize_city_names(text) == SubAlternation(text, CITY_ALIASES, FALSE)

\* text.split(sep) for a one-character separator
Split(text, sep) ==
  LET n == Len(text)
      out[i \in 1..(n + 1)] ==
        LET j == Leftmost({x \in i..n : text[x] = sep})
        IN IF j = 0 THEN << SubSeq(text, i, n) >>
           ELSE << SubSeq(text, i, j - 1) >> \o out[j + 1]
  IN out[1]

\* sep.join(parts)
Join(parts, sep) ==
  LET n == Len(parts)
      out[k \in 1..(n + 1)] ==
        IF k > n THEN << >>
        ELSE IF k = n THEN parts[k]
        ELSE parts[k] \o sep \o out[k + 1]
  IN out[1]

\* _clean_noise
clean_noise(text) ==
  Value({ Join([k \in 1..Len(segments) |->
                  StripChars(segments[k], {" ", ".", ",", ";", ":", "-"})],
               << ",", " " >>) :
          segments \in
            { SelectSeq(Split(collapsed, ","), LAMBDA s : Strip(s) # << >>) :
              collapsed \in {CollapseRuns(text, {",", ".", "-"}, 2, << >>)} } })

\* AddressNormalizer._extract_state, over load_indian_states()
extract_state(text) ==
  Value({ IF k # 0 THEN states[k].code ELSE PyNone :
          k \in { FirstIndex(states, LAMBDA info : StateMentioned(text_lower, info)) :
                  text_lower \in {Lower(text)} } })

\* AddressNormalizer._extract_city
extract_city(text) ==
  Value({ IF k # 0 THEN Title(major_cities[k]) ELSE PyNone :
          k \in { FirstIndex(major_cities, LAMBDA city : Contains(text_lower, city)) :
                  text_lower \in {Lower(text)} } })

\* normalize from step 3 on: the passes over the cleaned text
normalize_passes(cleaned) ==
  Value({ clean_noise(city_names) :
          city_names \in
            { normalize_city_names(transliterated) :
              transliterated \in
                { handle_transliterations(expanded) :
                  expanded \in
                    { expand_abbreviations(directions) :
                      directions \in {expand_direction_suffixes(cleaned)} } } } })

\* the pincode is extracted at the end, from the normalised text
normalize_pincode_last(address) ==
  IF address = << >>
    THEN [text |-> << >>, pincode |-> PyNone, state |-> PyNone, city |-> PyNone,
          original |-> address]
    ELSE Value({ [text |-> normalize_whitespace(text),
                  pincode |-> extract_pincode(text),
                  state |-> extract_state(text),
                  city |-> extract_city(text),
                  original |-> address] :
                 text \in { normalize_passes(c) : c \in {clean_text(address)} } })

\* AddressNormalizer().normalize(address), with the default options
normalize(address) ==
  IF address = << >>
    THEN [text |-> << >>, pincode |-> PyNone, state |-> PyNone, city |-> PyNone,
          original |-> address]
    ELSE Value({ [text |-> normalize_whitespace(text),
                  pincode |-> extract_pincode(cleaned),
                  state |-> extract_state(text),
                  city |-> extract_city(text),
                  original |-> address] :
                 cleaned \in {clean_text(address)},
                 text \in { normalize_passes(c) : c \in {clean_text(address)} } })

(***************************************************************************)
(* process_address (geospatial_nlp/__init__.py): normalise, extract        *)
(* landmarks, geocode, score.  Each call constructs its own normalizer,    *)
(* extractor, geocoder and scorer, so a call is one step.                  *)
(*                                                                         *)
(* The scorer and the geocoder read nothing of a landmark but its          *)
(* confidence, so the extractor's answer is a list of confidences.  The    *)
(* extractor's patterns are not computed: on the empty text it returns []  *)
(* as the code does, on any other text the list is one of LandmarkLists.   *)
(***************************************************************************)
\* LandmarkExtractor().extract(text): the lists it can return
extract(text) == IF text = << >> THEN { << >> } ELSE LandmarkLists

\* an argument the geocoder only tests for truthiness
NoneAsEmpty(value) == IF value = PyNone THEN << >> ELSE value

\* ContextualGeocoder().geocode(normalized_text, pincode, landmarks, state_hint):
\* the external API is off by default, so the local tiers or the country fallback
geocode(normalized) ==
  LET req == [normalized_text |-> normalized.text,
              pincode |-> NoneAsEmpty(normalized.pincode),
              city_hint |-> << >>,
              state_hint |-> NoneAsEmpty(normalized.state)]
      local == geocode_local(req)
  IN IF local # NoneResult THEN local ELSE get_india_fallback

\* process_address(raw_address) when the extractor returns landmarks
process_address(raw_address, landmarks) ==
  Value({ [raised |-> confidence.raised,
           normalized_address |-> normalized.text,
           pincode |-> normalized.pincode,
           state |-> normalized.state,
           city |-> normalized.city,
           landmarks |-> landmarks,
           coordinates |-> << geo_result.latitude, geo_result.longitude >>,
           geo_source |-> geo_result.source,
           confidence |-> confidence] :
          << normalized, geo_result, confidence >> \in
            { << n, g, source_score(n, landmarks, g.source) >> :
              << n, g >> \in { << nn, geocode(nn) >> : nn \in {normalize(raw_address)} } } })

\* raw_address: empty and blank, a pincode alone and with a locality, a city, or a
\* state, a city alone, addresses with abbreviations, aliases, split pincodes,
\* landmarks and building numbers
RawAddresses ==
  { << >>,
    <<" "," ">>,
    <<"4","0","0","0","6","9">>,
    <<"1","1","0","0","0","1">>,
    <<"9","9","9","9","9","9">>,
    <<"0","1","2","3","4","5">>,
    <<"a","n","d","h","e","r","i"," ","4","0","0","0","6","9">>,
    <<"m","u","m","b","a","i"," ","4","0","0","0","6","9">>,
    <<"m","h"," ","4","0","0","0","6","9">>,
    <<"n","e","a","r"," ","t","e","m","p","l","e">>,
    <<"4","2",","," ","m","g"," ","r","d",","," ","p","u","n","e",","," ","m","h">>,
    <<"b","o","m","b","a","y">>,
    <<"p","u","n","e">>,
    <<"g","o","a">>,
    <<"s","o","m","e"," ","v","i","l","l","a","g","e">>,
    <<"n","r"," ","r","l","y"," ","s","t","n",","," ","d","e","l","h","i">>,
    <<"c","a","l","c","u","t","t","a"," ","-"," ","7","0","0"," ","0","0","1">>,
    <<"H",".","N","o","."," ","4","2"," ","(","W",")">>,
    <<"3",","," ","O","p","p"," ","S","B","I"," ","B","a","n","k",","," ","I","n","d","o","r","e"," ","4","5","2","0","0","1">>,
    <<"o","p","p"," ","m","a","s","j","i","d",",",","," ","b","h","o","p","a","l"," ","m","p">>,
    <<"b","a","n","g","a","l","o","r","e"," ","k","a","r","n","a","t","a","k","a"," ","5","6","0","0","0","1">>,
    <<"b","/","h"," ","r","l","y"," ","s","t","n",",",","," ","c","a","l","c","u","t","t","a"," ","-","-"," ","7","0","0","0","0","1">>,
    <<"f","l","a","t"," ","n","o"," ","2","0","3",","," ","n","r"," ","s","t","n",","," ","b","a","n","d","r","a"," ","(","e",")">>,
    <<"4","0","0"," ","0","6","9"," ","m","u","m","b","a","i">>,
    <<"n","e","w"," ","d","e","l","h","i">>,
    <<"p",".","o","."," ","b","o","x"," ","1","2",","," ","m","a","d","r","a","s">> }

\* process_address(raw_address)
ProcessAddressCall(raw_address) ==
  /\ pa_pc = "idle"
  /\ pa_address' = raw_address
  /\ \E text \in {normalize(raw_address).text} :
       \E landmarks \in extract(text) :
         \E r \in {process_address(raw_address, landmarks)} :
           IF r.raised THEN pa_out' = r
           ELSE \E f \in float_neighbours(r.confidence.final) :
                  pa_out' = [r EXCEPT !.confidence.level = get_confidence_level_label(f)]
  /\ pa_pc' = "returned"
  /\ UNCHANGED notProcVars

\* the caller has the result (or the exception)
ProcessTaken ==
  /\ pa_pc = "returned"
  /\ pa_pc' = "idle"
  /\ pa_address' = << >>
  /\ pa_out' = NoOutput
  /\ UNCHANGED notProcVars

InitProcess ==
  /\ ProcessAtRest
  /\ GeocoderAtRest
  /\ LoaderAtRest
  /\ MatcherAtRest
  /\ RefAtRest
  /\ ScoreAtRest
  /\ FnAtRest

NextProcess ==
  \/ \E raw_address \in RawAddresses : ProcessAddressCall(raw_address)
  \/ ProcessTaken

SpecProcess == InitProcess /\ [][NextProcess]_vars

\* C3: a process_address call on an ordinary address (empty, a pincode without a
\* city, any other text) returns a result and does not raise.
C3_NeverRaises == pa_pc = "returned" => ~pa_out.raised

(***************************************************************************)
(* Calls of the stateless functions: a caller passes arguments and takes   *)
(* the value returned.                                                     *)
(***************************************************************************)
\* the caller has the value
FnTaken ==
  /\ fn_pc = "returned"
  /\ fn_pc' = "idle"
  /\ fn_call' = << >>
  /\ fn_out' = << >>
  /\ UNCHANGED notFnVars

InitFn ==
  /\ FnAtRest
  /\ GeocoderAtRest
  /\ LoaderAtRest
  /\ MatcherAtRest
  /\ RefAtRest
  /\ ScoreAtRest
  /\ ProcessAtRest

(***************************************************************************)
(* utils.validate_pincode                                                  *)
(***************************************************************************)
MaxPincodeLen == 7

\* characters of the strings validated: digits, the separators the function
\* removes, and a letter
PincodeChars == {"0", "4", " ", "-", "x"}

RECURSIVE StringsUpTo(_, _)
\* the strings over chars of length at most n
StringsUpTo(chars, n) ==
  IF n = 0 THEN { << >> }
  ELSE LET shorter == StringsUpTo(chars, n - 1)
       IN shorter \cup { Append(s, c) : s \in {x \in shorter : Len(x) = n - 1}, c \in chars }

PincodeStrings == StringsUpTo(PincodeChars, MaxPincodeLen)

\* validate_pincode(pincode)
ValidatePincodeCall(pincode) ==
  /\ fn_pc = "idle"
  /\ fn_call' = pincode
  /\ fn_out' = << validate_pincode(pincode) >>
  /\ fn_pc' = "returned"
  /\ UNCHANGED notFnVars

NextPincode ==
  \/ fn_pc = "idle" /\ \E pincode \in PincodeStrings : ValidatePincodeCall(pincode)
  \/ FnTaken

SpecPincode == InitFn /\ [][NextPincode]_vars

\* the string matches [1-9]\d{5}
MatchesPincodePattern(s) ==
  /\ Len(s) = 6
  /\ s[1] \in Digits \ {"0"}
  /\ \A i \in 2..6 : s[i] \in Digits

\* C11: validate_pincode returns true for exactly the strings that match
\* [1-9]\d{5}, and false for every other string.
C11_ValidExactlyPattern ==
  fn_pc = "returned" => (fn_out[1] <=> MatchesPincodePattern(fn_call))

\* C12: the source of every geocode result is one of pincode, pincode_prefix,
\* city, state, external_api, country_fallback, results of the external service
\* included.
C12_SourceInSix ==
  (g_pc = "returned" /\ ~g_raised) =>
    g_out.source \in {"pincode", "pincode_prefix", "city", "state", "external_api",
                      "country_fallback"}

(***************************************************************************)
(* landmark_extractor.py.  The regular expressions are kept as syntax      *)
(* trees, as re compiles them, and matched by backtracking: Ends lists the *)
(* positions at which a match of a tree that starts at index i can end, in *)
(* the order in which the backtracking matcher tries them, so its head is  *)
(* the match re reports.  Indexes are 1-based; an end is the index after   *)
(* the last character matched.  rapidfuzz and spaCy are not importable in  *)
(* this build, so use_fuzzy and use_ner are False.                         *)
(***************************************************************************)
\* a repeat count without upper limit
Unbounded == "unbounded"

Lit(s) == [t |-> "lit", s |-> s]

Rep(class, negated, min, max, lazy) ==
  [t |-> "rep", class |-> class, negated |-> negated, min |-> min, max |-> max,
   lazy |-> lazy]

Opt(node) == [t |-> "opt", of |-> node]

Concat(nodes) == [t |-> "seq", of |-> nodes]

Alt(nodes) == [t |-> "alt", of |-> nodes]

\* \b
WordBoundary == [t |-> "bound"]

\* $
AtEnd == [t |-> "end"]

RECURSIVE FlattenRange(_, _, _)
\* the concatenation of seqs[lo], ..., seqs[hi]
FlattenRange(seqs, lo, hi) ==
  IF lo > hi THEN << >>
  ELSE IF lo = hi THEN seqs[lo]
  ELSE FlattenRange(seqs, lo, (lo + hi) \div 2)
         \o FlattenRange(seqs, (lo + hi) \div 2 + 1, hi)

Flatten(seqs) == FlattenRange(seqs, 1, Len(seqs))

\* the ends of class{min,max} (greedy: longest first) or class{min,max}? (lazy)
RepEnds(node, text, i) ==
  Value({ IF hi < node.min THEN << >>
          ELSE [k \in 1..(hi - node.min + 1) |->
                  IF node.lazy THEN i + node.min + k - 1 ELSE i + hi - k + 1] :
          hi \in { IF node.max = Unbounded THEN run ELSE Min(run, node.max) :
                   run \in { Cardinality({j \in i..Len(text) :
                                \A x \in i..j : (text[x] \in node.class) # node.negated}) } } })

\* $ matches at the end of the text and before a newline that ends it
IsAtEnd(text, i) == i = Len(text) + 1 \/ (i = Len(text) /\ text[i] = "\n")

RECURSIVE Ends(_, _, _)
RECURSIVE EndsSeq(_, _, _, _)
RECURSIVE EndsAlt(_, _, _, _)
Ends(node, text, i) ==
  CASE node.t = "lit" ->
         IF LitAt(text, i, node.s) THEN << i + Len(node.s) >> ELSE << >>
    [] node.t = "rep" -> RepEnds(node, text, i)
    [] node.t = "opt" -> Ends(node.of, text, i) \o << i >>
    [] node.t = "seq" -> EndsSeq(node.of, 1, text, i)
    [] node.t = "alt" -> EndsAlt(node.of, 1, text, i)
    [] node.t = "bound" -> IF Boundary(text, i - 1) THEN << i >> ELSE << >>
    [] node.t = "end" -> IF IsAtEnd(text, i) THEN << i >> ELSE << >>

\* nodes[k], nodes[k+1], ... one after the other
EndsSeq(nodes, k, text, i) ==
  IF k > Len(nodes) THEN << i >>
  ELSE Value({ Flatten(continued) :
               continued \in
                 { [j \in 1..Len(es) |-> EndsSeq(nodes, k + 1, text, es[j])] :
                   es \in {Ends(nodes[k], text, i)} } })

\* nodes[k] | nodes[k+1] | ...
EndsAlt(nodes, k, text, i) ==
  IF k > Len(nodes) THEN << >>
  ELSE Ends(nodes[k], text, i) \o EndsAlt(nodes, k + 1, text, i)

\* pattern.finditer(text): the spans [start, end) of the successive leftmost
\* matches, none of them empty
FindIter(pattern, text) ==
  Value({ LET next[from \in 1..(Len(text) + 1)] ==
                LET start == Leftmost({i \in from..Len(text) : first[i] # 0})
                IN IF start = 0 THEN << >>
                   ELSE << [start |-> start, end |-> first[start]] >>
                          \o next[first[start]]
          IN next[1] :
          first \in { [i \in 1..Len(text) |->
                         Value({ IF es = << >> THEN 0 ELSE es[1] :
                                 es \in {Ends(pattern, text, i)} })] } })


\* LANDMARK_INDICATORS, each category's patterns as _compile_patterns joins them
LANDMARK_INDICATORS ==
  <<
    [category |-> "religious",
     pattern |->
       Alt(<<
         Concat(<< Opt(Concat(<< Lit(<< "s" >>), Alt(<< Lit(<< "h", "r", "i" >>),
           Lit(<< "h", "r", "e", "e" >>), Lit(<< "r", "i" >>) >>) >>)),
           Rep(Whitespace, FALSE, 0, Unbounded, FALSE), Rep(WordChars,
           FALSE, 1, Unbounded, FALSE), Rep(Whitespace, FALSE, 0, Unbounded,
           FALSE), Alt(<< Lit(<< "m", "a", "n", "d", "i", "r" >>), Lit(<<
           "t", "e", "m", "p", "l", "e" >>), Lit(<< "d", "e", "v", "a", "s",
           "t", "h", "a", "n" >>) >>) >>),
         Concat(<< Opt(Concat(<< Lit(<< "j", "a", "m" >>), Alt(<< Lit(<< "a" >>),
           Lit(<< "i", "a" >>) >>) >>)), Rep(Whitespace, FALSE, 0,
           Unbounded, FALSE), Rep(WordChars, FALSE, 0, Unbounded, FALSE),
           Rep(Whitespace, FALSE, 0, Unbounded, FALSE), Alt(<< Lit(<< "m",
           "a", "s", "j", "i", "d" >>), Lit(<< "m", "o", "s", "q", "u", "e"
           >>), Lit(<< "d", "a", "r", "g", "a", "h" >>) >>) >>),
         Concat(<< Rep(WordChars, FALSE, 1, Unbounded, FALSE), Rep(Whitespace,
           FALSE, 0, Unbounded, FALSE), Lit(<< "c" >>), Alt(<< Lit(<< "h",
           "u", "r", "c", "h" >>), Lit(<< "a", "t", "h", "e", "d", "r", "a",
           "l" >>), Lit(<< "h", "a", "p", "e", "l" >>) >>) >>),
         Concat(<< Lit(<< "g", "u", "r" >>), Alt(<< Lit(<< "u", "d", "w", "a",
           "r", "a" >>), Lit(<< "d", "w", "a", "r", "a" >>) >>),
           Rep(Whitespace, FALSE, 0, Unbounded, FALSE), Opt(Lit(<< "s", "a",
           "h", "i", "b" >>)) >>),
         Concat(<< Rep(WordChars, FALSE, 1, Unbounded, FALSE), Rep(Whitespace,
           FALSE, 0, Unbounded, FALSE), Alt(<< Lit(<< "m", "a", "t", "h"
           >>), Lit(<< "m", "u", "t", "t" >>), Lit(<< "a", "s", "h", "r",
           "a", "m" >>), Lit(<< "a", "s", "h", "r", "a", "m", "a" >>) >>)
           >>)
       >>)],
    [category |-> "transport",
     pattern |->
       Alt(<<
         Concat(<< Rep(WordChars, FALSE, 1, Unbounded, FALSE), Rep(Whitespace,
           FALSE, 0, Unbounded, FALSE), Lit(<< "r" >>), Alt(<< Lit(<< "a",
           "i", "l", "w", "a", "y" >>), Lit(<< "l", "y" >>) >>),
           Rep(Whitespace, FALSE, 0, Unbounded, FALSE), Lit(<< "s", "t" >>),
           Alt(<< Lit(<< "a", "t", "i", "o", "n" >>), Lit(<< "n" >>) >>)
           >>),
         Concat(<< Rep(WordChars, FALSE, 1, Unbounded, FALSE), Rep(Whitespace,
           FALSE, 0, Unbounded, FALSE), Lit(<< "b", "u", "s" >>),
           Rep(Whitespace, FALSE, 0, Unbounded, FALSE), Alt(<< Lit(<< "s",
           "t", "a", "n", "d" >>), Lit(<< "s", "t", "o", "p" >>), Lit(<<
           "s", "t", "a", "t", "i", "o", "n" >>), Lit(<< "d", "e", "p", "o",
           "t" >>) >>) >>),
         Concat(<< Rep(WordChars, FALSE, 1, Unbounded, FALSE), Rep(Whitespace,
           FALSE, 0, Unbounded, FALSE), Lit(<< "m", "e", "t", "r", "o" >>),
           Rep(Whitespace, FALSE, 0, Unbounded, FALSE), Opt(Concat(<< Lit(<<
           "s", "t" >>), Alt(<< Lit(<< "a", "t", "i", "o", "n" >>), Lit(<<
           "n" >>) >>) >>)) >>),
         Concat(<< Rep(WordChars, FALSE, 1, Unbounded, FALSE), Rep(Whitespace,
           FALSE, 0, Unbounded, FALSE), Lit(<< "a", "i", "r" >>), Alt(<<
           Lit(<< "p", "o", "r", "t" >>), Lit(<< "f", "i", "e", "l", "d" >>)
           >>) >>),
         Concat(<< Rep(WordChars, FALSE, 1, Unbounded, FALSE), Rep(Whitespace,
           FALSE, 0, Unbounded, FALSE), Lit(<< "j" >>), Alt(<< Lit(<< "u",
           "n", "c", "t", "i", "o", "n" >>), Lit(<< "n" >>), Lit(<< "c", "n"
           >>) >>) >>)
       >>)],
    [category |-> "commercial",
     pattern |->
       Alt(<<
         Concat(<< Rep(WordChars, FALSE, 1, Unbounded, FALSE), Rep(Whitespace,
           FALSE, 0, Unbounded, FALSE), Alt(<< Lit(<< "m", "a", "r", "k",
           "e", "t" >>), Lit(<< "m", "k", "t" >>), Lit(<< "b", "a", "z",
           "a", "a", "r" >>), Lit(<< "b", "a", "z", "a", "r" >>), Lit(<<
           "m", "a", "n", "d", "i" >>), Lit(<< "h", "a", "a", "t" >>) >>)
           >>),
         Concat(<< Rep(WordChars, FALSE, 1, Unbounded, FALSE), Rep(Whitespace,
           FALSE, 0, Unbounded, FALSE), Alt(<< Lit(<< "m", "a", "l", "l"
           >>), Lit(<< "p", "l", "a", "z", "a" >>), Lit(<< "a", "r", "c",
           "a", "d", "e" >>), Lit(<< "c", "o", "m", "p", "l", "e", "x" >>)
           >>) >>),
         Concat(<< Rep(WordChars, FALSE, 1, Unbounded, FALSE), Rep(Whitespace,
           FALSE, 0, Unbounded, FALSE), Alt(<< Lit(<< "h", "o", "t", "e",
           "l" >>), Lit(<< "l", "o", "d", "g", "e" >>), Lit(<< "i", "n", "n"
           >>), Lit(<< "d", "h", "a", "b", "a" >>) >>) >>),
         Concat(<< Rep(WordChars, FALSE, 1, Unbounded, FALSE), Rep(Whitespace,
           FALSE, 0, Unbounded, FALSE), Alt(<< Lit(<< "s", "h", "o", "p"
           >>), Lit(<< "s", "t", "o", "r", "e" >>), Lit(<< "s", "h", "o",
           "w", "r", "o", "o", "m" >>), Lit(<< "e", "m", "p", "o", "r", "i",
           "u", "m" >>) >>) >>),
         Concat(<< Rep(WordChars, FALSE, 1, Unbounded, FALSE), Rep(Whitespace,
           FALSE, 0, Unbounded, FALSE), Alt(<< Lit(<< "b", "a", "n", "k"
           >>), Lit(<< "a", "t", "m" >>) >>) >>),
         Concat(<< Rep(WordChars, FALSE, 1, Unbounded, FALSE), Rep(Whitespace,
           FALSE, 0, Unbounded, FALSE), Alt(<< Lit(<< "p", "e", "t", "r",
           "o", "l" >>), Lit(<< "g", "a", "s" >>) >>), Rep(Whitespace,
           FALSE, 0, Unbounded, FALSE), Alt(<< Lit(<< "p", "u", "m", "p"
           >>), Lit(<< "s", "t", "a", "t", "i", "o", "n" >>), Lit(<< "b",
           "u", "n", "k" >>) >>) >>)
       >>)],
    [category |-> "education",
     pattern |->
       Alt(<<
         Concat(<< Rep(WordChars, FALSE, 1, Unbounded, FALSE), Rep(Whitespace,
           FALSE, 0, Unbounded, FALSE), Alt(<< Lit(<< "s", "c", "h", "o",
           "o", "l" >>), Lit(<< "v", "i", "d", "y", "a", "l", "a", "y", "a"
           >>), Concat(<< Lit(<< "v", "i", "d", "y", "a" >>), Rep(Whitespace,
           FALSE, 0, Unbounded, FALSE), Lit(<< "m", "a", "n", "d", "i", "r"
           >>) >>), Lit(<< "p", "a", "t", "h", "s", "h", "a", "l", "a" >>)
           >>) >>),
         Concat(<< Rep(WordChars, FALSE, 1, Unbounded, FALSE), Rep(Whitespace,
           FALSE, 0, Unbounded, FALSE), Alt(<< Lit(<< "c", "o", "l", "l",
           "e", "g", "e" >>), Lit(<< "m", "a", "h", "a", "v", "i", "d", "y",
           "a", "l", "a", "y", "a" >>) >>) >>),
         Concat(<< Rep(WordChars, FALSE, 1, Unbounded, FALSE), Rep(Whitespace,
           FALSE, 0, Unbounded, FALSE), Alt(<< Lit(<< "u", "n", "i", "v",
           "e", "r", "s", "i", "t", "y" >>), Lit(<< "v", "i", "s", "h", "w",
           "a", "v", "i", "d", "y", "a", "l", "a", "y", "a" >>) >>) >>),
         Concat(<< Rep(WordChars, FALSE, 1, Unbounded, FALSE), Rep(Whitespace,
           FALSE, 0, Unbounded, FALSE), Alt(<< Lit(<< "i", "n", "s", "t",
           "i", "t", "u", "t", "e" >>), Lit(<< "i", "n", "s", "t", "i", "t",
           "u", "t", "i", "o", "n" >>), Lit(<< "a", "c", "a", "d", "e", "m",
           "y" >>) >>) >>),
         Concat(<< Rep(WordChars, FALSE, 1, Unbounded, FALSE), Rep(Whitespace,
           FALSE, 0, Unbounded, FALSE), Alt(<< Lit(<< "c", "o", "a", "c",
           "h", "i", "n", "g" >>), Lit(<< "c", "l", "a", "s", "s", "e", "s"
           >>), Lit(<< "t", "u", "i", "t", "i", "o", "n" >>) >>) >>)
       >>)],
    [category |-> "health",
     pattern |->
       Alt(<<
         Concat(<< Rep(WordChars, FALSE, 1, Unbounded, FALSE), Rep(Whitespace,
           FALSE, 0, Unbounded, FALSE), Alt(<< Lit(<< "h", "o", "s", "p",
           "i", "t", "a", "l" >>), Lit(<< "h", "o", "s", "p" >>), Concat(<<
           Lit(<< "n", "u", "r", "s", "i", "n", "g" >>), Rep(Whitespace,
           FALSE, 0, Unbounded, FALSE), Lit(<< "h", "o", "m", "e" >>) >>)
           >>) >>),
         Concat(<< Rep(WordChars, FALSE, 1, Unbounded, FALSE), Rep(Whitespace,
           FALSE, 0, Unbounded, FALSE), Alt(<< Lit(<< "c", "l", "i", "n",
           "i", "c" >>), Lit(<< "d", "i", "s", "p", "e", "n", "s", "a", "r",
           "y" >>), Lit(<< "p", "o", "l", "y", "c", "l", "i", "n", "i", "c"
           >>) >>) >>),
         Concat(<< Rep(WordChars, FALSE, 1, Unbounded, FALSE), Rep(Whitespace,
           FALSE, 0, Unbounded, FALSE), Alt(<< Lit(<< "m", "e", "d", "i",
           "c", "a", "l" >>), Lit(<< "m", "e", "d", "i", "c", "a", "l", "s"
           >>), Lit(<< "p", "h", "a", "r", "m", "a", "c", "y" >>), Lit(<<
           "c", "h", "e", "m", "i", "s", "t" >>) >>) >>),
         Concat(<< Lit(<< "d" >>), Alt(<< Lit(<< "r" >>), Lit(<< "o", "c", "t",
           "o", "r" >>) >>), Rep(Whitespace, FALSE, 0, Unbounded, FALSE),
           Rep(WordChars, FALSE, 1, Unbounded, FALSE), Opt(Lit(<< "'", "s"
           >>)), Rep(Whitespace, FALSE, 0, Unbounded, FALSE), Opt(Alt(<<
           Lit(<< "c", "l", "i", "n", "i", "c" >>), Lit(<< "h", "o", "s",
           "p", "i", "t", "a", "l" >>) >>)) >>)
       >>)],
    [category |-> "government",
     pattern |->
       Alt(<<
         Concat(<< Rep(WordChars, FALSE, 0, Unbounded, FALSE), Rep(Whitespace,
           FALSE, 0, Unbounded, FALSE), Lit(<< "p", "o", "l", "i", "c", "e"
           >>), Rep(Whitespace, FALSE, 0, Unbounded, FALSE), Alt(<< Lit(<<
           "s", "t", "a", "t", "i", "o", "n" >>), Lit(<< "c", "h", "o", "w",
           "k", "i" >>), Lit(<< "t", "h", "a", "n", "a" >>) >>) >>),
         Concat(<< Rep(WordChars, FALSE, 0, Unbounded, FALSE), Rep(Whitespace,
           FALSE, 0, Unbounded, FALSE), Lit(<< "p", "o", "s", "t" >>),
           Rep(Whitespace, FALSE, 0, Unbounded, FALSE), Lit(<< "o" >>),
           Alt(<< Lit(<< "f", "f", "i", "c", "e" >>), Concat(<<  >>) >>) >>),
         Concat(<< Rep(WordChars, FALSE, 0, Unbounded, FALSE), Rep(Whitespace,
           FALSE, 0, Unbounded, FALSE), Alt(<< Lit(<< "c", "o", "u", "r",
           "t" >>), Lit(<< "k", "a", "c", "h", "e", "r", "i" >>), Lit(<<
           "k", "a", "c", "h", "a", "h", "r", "i" >>) >>) >>),
         Concat(<< Alt(<< Lit(<< "c", "o", "l", "l", "e", "c", "t", "o", "r"
           >>), Lit(<< "t", "e", "h", "s", "i", "l" >>), Lit(<< "t", "a",
           "l", "u", "k", "a" >>), Lit(<< "b", "l", "o", "c", "k" >>) >>),
           Rep(Whitespace, FALSE, 0, Unbounded, FALSE), Opt(Lit(<< "o", "f",
           "f", "i", "c", "e" >>)) >>),
         Concat(<< Rep(WordChars, FALSE, 1, Unbounded, FALSE), Rep(Whitespace,
           FALSE, 0, Unbounded, FALSE), Alt(<< Lit(<< "b", "h", "a", "v",
           "a", "n" >>), Lit(<< "b", "h", "a", "w", "a", "n" >>), Lit(<<
           "s", "a", "d", "a", "n" >>) >>), Rep(Whitespace, FALSE, 0,
           Unbounded, FALSE), Opt(Concat(<< Lit(<< "g", "o", "v" >>), Alt(<<
           Lit(<< "e", "r", "n", "m", "e", "n", "t" >>), Lit(<< "t" >>) >>)
           >>)) >>)
       >>)],
    [category |-> "infrastructure",
     pattern |->
       Alt(<<
         Concat(<< Rep(WordChars, FALSE, 1, Unbounded, FALSE), Rep(Whitespace,
           FALSE, 0, Unbounded, FALSE), Alt(<< Lit(<< "b", "r", "i", "d",
           "g", "e" >>), Lit(<< "p", "u", "l" >>), Lit(<< "s", "e", "t", "u"
           >>), Lit(<< "o", "v", "e", "r", "b", "r", "i", "d", "g", "e" >>),
           Lit(<< "f", "l", "y", "o", "v", "e", "r" >>) >>) >>),
         Concat(<< Rep(WordChars, FALSE, 1, Unbounded, FALSE), Rep(Whitespace,
           FALSE, 0, Unbounded, FALSE), Alt(<< Lit(<< "s", "i", "g", "n",
           "a", "l" >>), Concat(<< Lit(<< "t", "r", "a", "f", "f", "i", "c"
           >>), Rep(Whitespace, FALSE, 0, Unbounded, FALSE), Lit(<< "l",
           "i", "g", "h", "t" >>) >>) >>) >>),
         Concat(<< Rep(WordChars, FALSE, 1, Unbounded, FALSE), Rep(Whitespace,
           FALSE, 0, Unbounded, FALSE), Alt(<< Lit(<< "c", "h", "o", "w",
           "k" >>), Lit(<< "c", "h", "a", "w", "k" >>), Lit(<< "c", "h",
           "a", "u", "k" >>), Lit(<< "c", "i", "r", "c", "l", "e" >>),
           Lit(<< "s", "q", "u", "a", "r", "e" >>), Lit(<< "r", "o", "u",
           "n", "d", "a", "b", "o", "u", "t" >>) >>) >>),
         Concat(<< Rep(WordChars, FALSE, 1, Unbounded, FALSE), Rep(Whitespace,
           FALSE, 0, Unbounded, FALSE), Alt(<< Lit(<< "n", "a", "k", "a"
           >>), Lit(<< "n", "a", "a", "k", "a" >>), Lit(<< "t", "o", "l",
           "l" >>), Lit(<< "g", "a", "t", "e" >>), Lit(<< "c", "r", "o",
           "s", "s", "i", "n", "g" >>) >>) >>),
         Concat(<< Rep(WordChars, FALSE, 1, Unbounded, FALSE), Rep(Whitespace,
           FALSE, 0, Unbounded, FALSE), Alt(<< Lit(<< "p", "a", "r", "k"
           >>), Lit(<< "g", "a", "r", "d", "e", "n" >>), Lit(<< "b", "a",
           "u", "g" >>), Lit(<< "b", "a", "g", "h" >>), Lit(<< "m", "a",
           "i", "d", "a", "n" >>), Lit(<< "g", "r", "o", "u", "n", "d" >>)
           >>) >>)
       >>)],
    [category |-> "residential",
     pattern |->
       Alt(<<
         Concat(<< Rep(WordChars, FALSE, 1, Unbounded, FALSE), Rep(Whitespace,
           FALSE, 0, Unbounded, FALSE), Alt(<< Lit(<< "s", "o", "c", "i",
           "e", "t", "y" >>), Lit(<< "s", "o", "c" >>), Lit(<< "c", "o",
           "m", "p", "l", "e", "x" >>), Lit(<< "a", "p", "a", "r", "t", "m",
           "e", "n", "t" >>), Lit(<< "a", "p", "t", "s" >>), Lit(<< "t",
           "o", "w", "e", "r" >>) >>) >>),
         Concat(<< Rep(WordChars, FALSE, 1, Unbounded, FALSE), Rep(Whitespace,
           FALSE, 0, Unbounded, FALSE), Alt(<< Lit(<< "n", "a", "g", "a",
           "r" >>), Lit(<< "p", "u", "r", "a", "m" >>), Lit(<< "c", "o",
           "l", "o", "n", "y" >>), Lit(<< "e", "n", "c", "l", "a", "v", "e"
           >>), Lit(<< "v", "i", "h", "a", "r" >>), Lit(<< "k", "u", "n",
           "j" >>) >>) >>),
         Concat(<< Rep(WordChars, FALSE, 1, Unbounded, FALSE), Rep(Whitespace,
           FALSE, 0, Unbounded, FALSE), Alt(<< Lit(<< "c", "h", "a", "w",
           "l" >>), Lit(<< "c", "h", "a", "w", "l", "s" >>), Lit(<< "t",
           "e", "n", "e", "m", "e", "n", "t" >>) >>) >>),
         Concat(<< Rep(WordChars, FALSE, 1, Unbounded, FALSE), Rep(Whitespace,
           FALSE, 0, Unbounded, FALSE), Alt(<< Lit(<< "l", "a", "y", "o",
           "u", "t" >>), Lit(<< "p", "h", "a", "s", "e" >>), Lit(<< "s",
           "e", "c", "t", "o", "r" >>), Lit(<< "b", "l", "o", "c", "k" >>)
           >>) >>)
       >>)]
  >>

\* POSITIONAL_PATTERNS, one entry per keyword in the order the loops visit them
POSITIONAL_PATTERNS ==
  <<
    [position |-> "near", keyword |-> << "n", "e", "a", "r" >>],
    [position |-> "near", keyword |-> << "n", "r" >>],
    [position |-> "near", keyword |-> << "c", "l", "o", "s", "e", " ", "t", "o" >>],
    [position |-> "near", keyword |-> << "b", "e", "s", "i", "d", "e" >>],
    [position |-> "near", keyword |-> << "b", "y" >>],
    [position |-> "near", keyword |-> << "n", "e", "x", "t", " ", "t", "o" >>],
    [position |-> "near", keyword |-> << "n", "x", "t", " ", "t", "o" >>],
    [position |-> "near", keyword |-> << "a", "d", "j", "a", "c", "e", "n", "t" >>],
    [position |-> "opposite", keyword |-> << "o", "p", "p", "o", "s", "i", "t", "e" >>],
    [position |-> "opposite", keyword |-> << "o", "p", "p" >>],
    [position |-> "opposite", keyword |-> << "o", "p", "p", " ", "t", "o" >>],
    [position |-> "opposite", keyword |-> << "f", "a", "c", "i", "n", "g" >>],
    [position |-> "opposite", keyword |-> << "a", "c", "r", "o", "s", "s", " ", "f", "r", "o", "m" >>],
    [position |-> "opposite", keyword |-> << "i", "n", " ", "f", "r", "o", "n", "t", " ", "o", "f" >>],
    [position |-> "behind", keyword |-> << "b", "e", "h", "i", "n", "d" >>],
    [position |-> "behind", keyword |-> << "b", "h", "n", "d" >>],
    [position |-> "behind", keyword |-> << "b", "/", "h" >>],
    [position |-> "behind", keyword |-> << "b", "a", "c", "k", " ", "o", "f" >>],
    [position |-> "behind", keyword |-> << "a", "t", " ", "b", "a", "c", "k" >>],
    [position |-> "behind", keyword |-> << "r", "e", "a", "r", " ", "o", "f" >>],
    [position |-> "above", keyword |-> << "a", "b", "o", "v", "e" >>],
    [position |-> "above", keyword |-> << "o", "v", "e", "r" >>],
    [position |-> "above", keyword |-> << "u", "p", "s", "t", "a", "i", "r", "s", " ", "f", "r", "o", "m" >>],
    [position |-> "above", keyword |-> << "o", "n", " ", "t", "o", "p", " ", "o", "f" >>],
    [position |-> "below", keyword |-> << "b", "e", "l", "o", "w" >>],
    [position |-> "below", keyword |-> << "u", "n", "d", "e", "r" >>],
    [position |-> "below", keyword |-> << "d", "o", "w", "n", "s", "t", "a", "i", "r", "s", " ", "f", "r", "o", "m" >>],
    [position |-> "below", keyword |-> << "b", "e", "n", "e", "a", "t", "h" >>],
    [position |-> "inside", keyword |-> << "i", "n", "s", "i", "d", "e" >>],
    [position |-> "inside", keyword |-> << "w", "i", "t", "h", "i", "n" >>],
    [position |-> "inside", keyword |-> << "i", "n" >>],
    [position |-> "inside", keyword |-> << "a", "t" >>]
  >>


\* position None of a landmark no position keyword introduced
NoPosition == "None"

\* an extracted landmark as to_dict() gives it; span is [start, end), 0-based;
\* confidence in units of 1e-6
ExtractedLandmark(text, category, normalized, position, confidence, start, end) ==
  [text |-> text, category |-> category, normalized |-> normalized,
   position |-> position, confidence |-> confidence, span |-> << start, end >>]

\* _normalize_landmark with use_fuzzy False
normalize_landmark(text) == Title(clean_text(text))

\* _extract_by_patterns: each category's matches in text_lower, cut from the
\* original text
extract_by_patterns(text_lower, original_text) ==
  Flatten([c \in 1..Len(LANDMARK_INDICATORS) |->
    Value({ Flatten([m \in 1..Len(matches) |->
                Value({ IF Len(matched_text) < 3 THEN << >>
                        ELSE << ExtractedLandmark(matched_text,
                                  LANDMARK_INDICATORS[c].category,
                                  normalize_landmark(matched_text), NoPosition, 900000,
                                  matches[m].start - 1, matches[m].end - 1) >> :
                        matched_text \in
                          { Strip(SubSeq(original_text, matches[m].start,
                                         matches[m].end - 1)) } })]) :
            matches \in { FindIter(LANDMARK_INDICATORS[c].pattern, text_lower) } })])

\* the characters [^,\-\n] excludes
PhraseStops == {",", "-", "\n"}

\* rf'\b{keyword}\s+([^,\-\n]+?)(?:[,\-]|$)' matched at index i: the first way, in
\* backtracking order, to end the keyword's whitespace, then the lazy group, so
\* that a comma, a hyphen or the end follows; << >> when there is none
PositionalAt(text, i, keyword) ==
  Value({ IF ways = << >> THEN << >> ELSE ways[1] :
          ways \in
            { Flatten([a \in 1..Len(spaces) |->
                 Value({ SelectSeq(
                           [b \in 1..Len(group) |->
                              [start |-> i, group_start |-> spaces[a],
                               group_end |-> group[b],
                               end |-> IF CharAt(text, group[b], {",", "-"})
                                         THEN group[b] + 1
                                       ELSE IF IsAtEnd(text, group[b]) THEN group[b]
                                       ELSE 0]],
                           LAMBDA way : way.end # 0) :
                         group \in { Ends(Rep(PhraseStops, TRUE, 1, Unbounded, TRUE),
                                          text, spaces[a]) } })]) :
              spaces \in { Ends(Concat(<< WordBoundary, Lit(keyword),
                                       Rep(Whitespace, FALSE, 1, Unbounded, FALSE) >>),
                                text, i) } } })

\* finditer of the positional pattern of keyword
FindPositional(text, keyword) ==
  Value({ LET next[from \in 1..(Len(text) + 1)] ==
                LET start == Leftmost({i \in from..Len(text) : at[i] # << >>})
                IN IF start = 0 THEN << >> ELSE << at[start] >> \o next[at[start].end]
          IN next[1] :
          at \in { [i \in 1..Len(text) |-> PositionalAt(text, i, keyword)] } })

\* _extract_positional_context: the phrase after each position keyword
extract_positional_context(text_lower, original_text) ==
  Flatten([p \in 1..Len(POSITIONAL_PATTERNS) |->
    Value({ Flatten([m \in 1..Len(matches) |->
                Value({ IF Len(landmark_text) < 4
                             \/ IsDigitStr(SelectSeq(landmark_text, LAMBDA c : c # " "))
                          THEN << >>
                        ELSE << ExtractedLandmark(
                                  Strip(SubSeq(original_text, matches[m].group_start,
                                               matches[m].group_end - 1)),
                                  "referenced", normalize_landmark(landmark_text),
                                  POSITIONAL_PATTERNS[p].position, 750000,
                                  matches[m].group_start - 1,
                                  matches[m].group_end - 1) >> :
                        landmark_text \in
                          { Strip(SubSeq(text_lower, matches[m].group_start,
                                         matches[m].group_end - 1)) } })]) :
            matches \in { FindPositional(text_lower, POSITIONAL_PATTERNS[p].keyword) } })])

\* _overlaps_existing: the span of new_landmark meets the span of a kept one
overlaps_existing(new_landmark, existing) ==
  \E k \in 1..Len(existing) :
     /\ new_landmark.span[1] < existing[k].span[2]
     /\ new_landmark.span[2] > existing[k].span[1]

\* sorted(landmarks, key=confidence, reverse=True): stable, and the confidences
\* are 0.9 and 0.75 only
SortByConfidence(landmarks) ==
  SelectSeq(landmarks, LAMBDA lm : lm.confidence = 900000)
    \o SelectSeq(landmarks, LAMBDA lm : lm.confidence # 900000)

\* a deduplication by normalized name alone
deduplicate_by_name(landmarks) ==
  Value({ LET kept[k \in 0..Len(sorted)] ==
                IF k = 0 THEN << >>
                ELSE IF \E j \in 1..Len(kept[k - 1]) :
                           Lower(kept[k - 1][j].normalized) = Lower(sorted[k].normalized)
                       THEN kept[k - 1]
                     ELSE Append(kept[k - 1], sorted[k])
          IN kept[Len(sorted)] :
          sorted \in { SortByConfidence(landmarks) } })

\* _deduplicate: in order of confidence, keep a landmark unless its normalized
\* name was seen or its span overlaps a kept one
deduplicate(landmarks) ==
  Value({ LET kept[k \in 0..Len(sorted)] ==
                IF k = 0 THEN << >>
                ELSE IF \/ \E j \in 1..Len(kept[k - 1]) :
                              Lower(kept[k - 1][j].normalized) = Lower(sorted[k].normalized)
                        \/ overlaps_existing(sorted[k], kept[k - 1])
                       THEN kept[k - 1]
                     ELSE Append(kept[k - 1], sorted[k])
          IN kept[Len(sorted)] :
          sorted \in { SortByConfidence(landmarks) } })

\* LandmarkExtractor().extract(text) computed: patterns, positional context,
\* deduplication, then the min_confidence filter (0.5)
extract_landmarks(text) ==
  IF text = << >> THEN << >>
  ELSE Value({ SelectSeq(unique, LAMBDA lm : lm.confidence >= 500000) :
               unique \in
                 { deduplicate(extract_by_patterns(text_lower, text)
                                 \o extract_positional_context(text_lower, text)) :
                   text_lower \in {Lower(text)} } })


(***************************************************************************)
(* LandmarkExtractor().extract as a call: the extractor keeps no state     *)
(* between calls, so a call is one step.                                   *)
(***************************************************************************)
\* position keywords that open the texts
ExtractKeywords ==
  { <<"n","e","a","r">>,
    <<"N","e","a","r">>,
    <<"o","p","p","o","s","i","t","e">>,
    <<"o","p","p">>,
    <<"b","e","h","i","n","d">> }

\* what follows the keyword: phrases no category pattern matches, phrases a
\* category pattern matches, a number, a phrase of three characters
ExtractPhrases ==
  { <<"x","y","z"," ","a","b","c","d">>,
    <<"s","h","i","v"," ","t","e","m","p","l","e">>,
    <<"b","i","g"," ","b","a","z","a","a","r">>,
    <<"c","i","t","y"," ","m","a","l","l">>,
    <<"c","e","n","t","r","a","l"," ","p","a","r","k">>,
    <<"r","a","i","l","w","a","y"," ","s","t","a","t","i","o","n">>,
    <<"1","0","0">>,
    <<"a","b","c">> }

\* what follows the phrase: nothing, a comma and a locality, a hyphen and a number
ExtractTails ==
  { << >>,
    <<","," ","p","u","n","e">>,
    <<" ","-"," ","4">> }

NearTempleOppositeStation ==
  <<"N","e","a","r"," ","S","h","i","v"," ","T","e","m","p","l","e",","," ","O","p","p","o","s","i","t","e"," ","R","a","i","l","w","a","y"," ","S","t","a","t","i","o","n">>

\* three candidates in a chain: the first overlaps the second, the second the third
AcrossPolicePostOppChowk ==
  <<"a","c","r","o","s","s"," ","p","o","l","i","c","e"," ","p","o","s","t"," ","o","p","p"," ","c","h","o","w","k">>

ExtractTexts ==
  { keyword \o << " " >> \o phrase \o tail :
      keyword \in ExtractKeywords, phrase \in ExtractPhrases, tail \in ExtractTails }
    \cup { << >>, NearTempleOppositeStation, AcrossPolicePostOppChowk }

\* LandmarkExtractor().extract(text)
ExtractCall(text) ==
  /\ fn_pc = "idle"
  /\ fn_call' = text
  /\ fn_out' = << extract_landmarks(text) >>
  /\ fn_pc' = "returned"
  /\ UNCHANGED notFnVars

NextExtract ==
  \/ fn_pc = "idle" /\ \E text \in ExtractTexts : ExtractCall(text)
  \/ FnTaken

SpecExtract == InitFn /\ [][NextExtract]_vars

\* some landmark of the list carries the position word
HasPosition(landmarks, position) ==
  \E k \in 1..Len(landmarks) : landmarks[k].position = position

\* C13: when the text holds near, opposite or behind (or a spelling of them)
\* followed by a landmark phrase, extract returns a landmark with that position
\* word, also when a category pattern matches the phrase; for "Near Shiv
\* Temple, Opposite Railway Station" it returns at least two landmarks, one with
\* position near and one with position opposite
C13_PositionKept ==
  fn_pc = "returned" =>
    /\ \A position \in {"near", "opposite", "behind"} :
         HasPosition(extract_positional_context(Lower(fn_call), fn_call), position)
           => HasPosition(fn_out[1], position)
    /\ fn_call = NearTempleOppositeStation =>
         /\ Len(fn_out[1]) >= 2
         /\ HasPosition(fn_out[1], "near")
         /\ HasPosition(fn_out[1], "opposite")


(***************************************************************************)
(* LandmarkMatcher.match_landmark as a call on a constructed matcher.      *)
(* What the sentence-transformer model and rapidfuzz's token_sort_ratio    *)
(* compute is not modelled: the similarity of the phrase to each landmark  *)
(* name is an input of the call, in units of 1e-6, and where two           *)
(* candidates have the same similarity the order of the two is a choice.   *)
(***************************************************************************)
\* round(x, 4), ties to even
round4(x) ==
  LET q == x \div 100
      r == x % 100
  IN IF r < 50 THEN q * 100
     ELSE IF r > 50 THEN (q + 1) * 100
     ELSE IF q % 2 = 0 THEN q * 100 ELSE (q + 1) * 100

\* MatchResult(...).to_dict()
MatchResult(user_phrase, lm, similarity) ==
  [input_landmark |-> user_phrase, matched_name |-> lm.name, lat |-> lm.latitude,
   lng |-> lm.longitude, similarity |-> round4(similarity), type |-> lm.type,
   city |-> lm.city]

\* LandmarkMatcher(data_path, use_embeddings=..., similarity_threshold=...) after
\* __init__: embeddings is "self.use_embeddings and self._model", which needs
\* sentence_transformers, a loaded model and a landmark
LandmarkMatcher(file, use_embeddings, similarity_threshold, model_loads, rapidfuzz) ==
  [landmarks |-> matcher_load_landmarks(file),
   similarity_threshold |-> similarity_threshold,
   embeddings |-> use_embeddings /\ model_loads /\ matcher_load_landmarks(file) # << >>,
   rapidfuzz |-> rapidfuzz]

\* the indexes in self._landmarks of the candidates match_landmark searches:
\* self._landmarks_by_city.get(city.lower(), []), or all when that is empty
match_candidates(landmarks, city) ==
  LET all == [i \in 1..Len(landmarks) |-> i]
      in_city == SelectSeq(all, LAMBDA i : landmarks[i].city = Lower(city))
  IN IF city # << >> /\ in_city # << >> THEN in_city ELSE all

\* the ways to list 1..n by similarity descending
DescendingOrders(similarity, n) ==
  { order \in [1..n -> 1..n] :
      /\ \A a, b \in 1..n : a # b => order[a] # order[b]
      /\ \A a \in 1..(n - 1) : similarity[order[a]] >= similarity[order[a + 1]] }

\* match_landmark without the threshold test
match_landmark_unfiltered(matcher, user_phrase, city, top_k, similarities, order) ==
  IF user_phrase = << >> \/ matcher.landmarks = << >> THEN << >>
  ELSE IF ~matcher.embeddings /\ ~matcher.rapidfuzz THEN << >>
  ELSE LET candidates == match_candidates(matcher.landmarks, city)
           top == SubSeq(order, 1, Min(top_k, Len(order)))
       IN [k \in 1..Len(top) |->
             MatchResult(user_phrase, matcher.landmarks[candidates[top[k]]],
                         similarities[top[k]])]

\* match_landmark(user_phrase, city, top_k): similarities[i] is the similarity of
\* the phrase to the i-th candidate, order a descending order of the candidates
\* (np.argsort(...)[::-1] or process.extract); the first top_k of it are taken
\* and those under the threshold dropped
match_landmark(matcher, user_phrase, city, top_k, similarities, order) ==
  IF user_phrase = << >> \/ matcher.landmarks = << >> THEN << >>
  ELSE IF ~matcher.embeddings /\ ~matcher.rapidfuzz THEN << >>
  ELSE LET candidates == match_candidates(matcher.landmarks, city)
           top == SubSeq(order, 1, Min(top_k, Len(order)))
           kept == SelectSeq(top, LAMBDA idx :
                     similarities[idx] >= matcher.similarity_threshold)
       IN [k \in 1..Len(kept) |->
             MatchResult(user_phrase, matcher.landmarks[candidates[kept[k]]],
                         similarities[kept[k]])]

MaxTopK == 2

MatchFiles ==
  { NoFile,
    [exists |-> TRUE, readable |-> TRUE, rows |-> << RowRajwada, RowCST, RowGateway >>] }

\* the default threshold and one that is not a multiple of 0.0001 (1/3)
MatchThresholds == {500000, 333333}

MatchPhrases == { << >>, <<"c","s","t">> }

\* no city, a city of the gazetteer in another case, another one, one without landmarks
MatchCities ==
  { << >>, <<"M","u","m","b","a","i">>, <<"i","n","d","o","r","e">>, <<"p","u","n","e">> }

MatchSimilarities == {200000, 333340, 500000, 812345}

\* matcher.match_landmark(user_phrase, city, top_k)
MatchLandmarkCall(matcher, user_phrase, city, top_k) ==
  /\ fn_pc = "idle"
  /\ \E similarities \in
          [1..Len(match_candidates(matcher.landmarks, city)) -> MatchSimilarities] :
       \E order \in DescendingOrders(similarities, Len(similarities)) :
          /\ fn_call' = [matcher |-> matcher, user_phrase |-> user_phrase,
                         city |-> city, top_k |-> top_k,
                         similarities |-> similarities]
          /\ fn_out' = << match_landmark(matcher, user_phrase, city, top_k,
                                         similarities, order) >>
  /\ fn_pc' = "returned"
  /\ UNCHANGED notFnVars

NextMatch ==
  \/ /\ fn_pc = "idle"
     /\ \E file \in MatchFiles, use_embeddings \in BOOLEAN,
           similarity_threshold \in MatchThresholds, model_loads \in BOOLEAN,
           rapidfuzz \in BOOLEAN, user_phrase \in MatchPhrases, city \in MatchCities,
           top_k \in 1..MaxTopK :
          MatchLandmarkCall(LandmarkMatcher(file, use_embeddings, similarity_threshold,
                                            model_loads, rapidfuzz),
                            user_phrase, city, top_k)
  \/ FnTaken

SpecMatch == InitFn /\ [][NextMatch]_vars

\* C14: match_landmark returns at most top_k matches, in order of similarity
\* descending, each with a similarity of at least the matcher's threshold,
\* whichever of the two strategies the matcher uses
C14_TopKSortedAboveThreshold ==
  fn_pc = "returned" =>
    /\ Len(fn_out[1]) <= fn_call.top_k
    /\ \A k \in 1..(Len(fn_out[1]) - 1) :
         fn_out[1][k].similarity >= fn_out[1][k + 1].similarity
    /\ \A k \in 1..Len(fn_out[1]) :
         fn_out[1][k].similarity >= fn_call.matcher.similarity_threshold

\* C14, amended: match_landmark returns at most top_k matches, in order of
\* similarity descending; the threshold is applied before to_dict rounds the
\* similarity to four places, so each reported similarity is at least the
\* threshold rounded to four places
C14_TopKSortedAboveRoundedThreshold ==
  fn_pc = "returned" =>
    /\ Len(fn_out[1]) <= fn_call.top_k
    /\ \A k \in 1..(Len(fn_out[1]) - 1) :
         fn_out[1][k].similarity >= fn_out[1][k + 1].similarity
    /\ \A k \in 1..Len(fn_out[1]) :
         fn_out[1][k].similarity >= round4(fn_call.matcher.similarity_threshold)

\* of three candidates the best two were taken and one of them dropped for its
\* similarity, under each strategy
C14_Witness ==
  /\ fn_pc = "returned"
  /\ Len(fn_call.similarities) = 3
  /\ fn_call.top_k = 2
  /\ Len(fn_out[1]) = 1
  /\ fn_call.matcher.embeddings

\* C15: with a city given, every match returned is a landmark of that city
\* (compared without case), and a city without landmarks gives no match
C15_CityScoped ==
  (fn_pc = "returned" /\ fn_call.city # << >>) =>
    /\ \A k \in 1..Len(fn_out[1]) : fn_out[1][k].city = Lower(fn_call.city)
    /\ (\A i \in 1..Len(fn_call.matcher.landmarks) :
           fn_call.matcher.landmarks[i].city # Lower(fn_call.city))
         => fn_out[1] = << >>


(***************************************************************************)
(* location_predictor.py.  Distances are in centimetres, bearings in       *)
(* degrees, similarities and confidences in units of 1e-6.  A dict is a    *)
(* function whose domain is its keys.  The draws of the random module are  *)
(* inputs of a call.  The trigonometry of offset_coordinate is not         *)
(* computed: it places the point at great-circle distance distance_m from  *)
(* the anchor, and to_dict rounds each coordinate to six decimals, which   *)
(* moves the point by up to half of 1e-6 degree (5.6 cm) along each axis;  *)
(* the result carries the distance of the reported point from the anchor.  *)
(***************************************************************************)
\* base_bearing of an entry that has none
NoBearing == "None"

\* RELATIVE_DIRECTION_CONFIG
RELATIVE_DIRECTION_CONFIG ==
  <<"n","e","a","r">> :>
    [min_offset_m |-> 5000, max_offset_m |-> 10000, bearing_mode |-> "random", base_bearing |-> NoBearing] @@
  <<"b","e","h","i","n","d">> :>
    [min_offset_m |-> 3000, max_offset_m |-> 8000, bearing_mode |-> "opposite", base_bearing |-> 180] @@
  <<"o","p","p","o","s","i","t","e">> :>
    [min_offset_m |-> 2000, max_offset_m |-> 5000, bearing_mode |-> "opposite", base_bearing |-> 180] @@
  <<"b","e","s","i","d","e">> :>
    [min_offset_m |-> 1000, max_offset_m |-> 4000, bearing_mode |-> "perpendicular", base_bearing |-> 90] @@
  <<"a","d","j","a","c","e","n","t">> :>
    [min_offset_m |-> 1000, max_offset_m |-> 4000, bearing_mode |-> "perpendicular", base_bearing |-> 90] @@
  <<"a","f","t","e","r">> :>
    [min_offset_m |-> 10000, max_offset_m |-> 20000, bearing_mode |-> "forward", base_bearing |-> 0] @@
  <<"p","a","s","t">> :>
    [min_offset_m |-> 10000, max_offset_m |-> 20000, bearing_mode |-> "forward", base_bearing |-> 0] @@
  <<"b","e","f","o","r","e">> :>
    [min_offset_m |-> 10000, max_offset_m |-> 20000, bearing_mode |-> "backward", base_bearing |-> 180] @@
  <<"n","e","x","t"," ","t","o">> :>
    [min_offset_m |-> 500, max_offset_m |-> 3000, bearing_mode |-> "random", base_bearing |-> NoBearing] @@
  <<"i","n"," ","f","r","o","n","t"," ","o","f">> :>
    [min_offset_m |-> 1500, max_offset_m |-> 5000, bearing_mode |-> "fixed", base_bearing |-> 0] @@
  <<"a","c","r","o","s","s"," ","f","r","o","m">> :>
    [min_offset_m |-> 3000, max_offset_m |-> 8000, bearing_mode |-> "opposite", base_bearing |-> 180]

\* LANE_OFFSET_MULTIPLIER: 15 m per lane number
LANE_OFFSET_MULTIPLIER == 1500

\* LocationPredictor.default_offset_m: 75 m
default_offset_m == 7500

\* how far rounding the coordinates to six decimals can move the reported
\* point along the line to the anchor
CoordinateRounding == 5

\* dict.get(key, default)
Get(dict, key, default) == IF key \in DOMAIN dict THEN dict[key] ELSE default

\* anchor_landmark None, direction_used None
NoAnchor == [none |-> TRUE]

NoDirection == << "None" >>

\* round(x, 1) of a distance in centimetres, ties to even
round1(x) ==
  LET q == x \div 10
      r == x % 10
  IN IF r < 5 THEN q * 10
     ELSE IF r > 5 THEN (q + 1) * 10
     ELSE IF q % 2 = 0 THEN q * 10 ELSE (q + 1) * 10

\* PredictionResult(...).to_dict(); moved_cm is the distance of (lat, lng) as
\* reported from the anchor
PredictionResult(moved_cm, confidence, anchor, direction, offset_m, bearing_deg, method) ==
  [moved_cm |-> moved_cm, confidence |-> round3(confidence),
   anchor_landmark |-> anchor, direction_used |-> direction,
   offset_applied_m |-> round1(offset_m),
   bearing_applied_deg |-> bearing_deg, method |-> method]

\* _fallback_prediction
fallback_prediction == PredictionResult(0, 0, NoAnchor, NoDirection, 0, 0, "fallback")

\* max(valid_landmarks, key=...): the first of the largest
FirstMax(landmarks, Key(_)) ==
  landmarks[CHOOSE k \in 1..Len(landmarks) :
              /\ \A j \in 1..Len(landmarks) : Key(landmarks[k]) >= Key(landmarks[j])
              /\ \A j \in 1..(k - 1) : Key(landmarks[j]) < Key(landmarks[k])]

\* lm["lat"] = lm["latitude"]; lm["lng"] = lm["longitude"] where present
NormalizeKeys(lm) ==
  LET with_lat == ("lat" :> lm["latitude"]) @@ lm
  IN IF "longitude" \in DOMAIN lm
       THEN ("lng" :> lm["longitude"]) @@ with_lat ELSE with_lat

\* _select_anchor: NoAnchor for None
select_anchor(matched_landmarks) ==
  LET with_lat == SelectSeq(matched_landmarks, LAMBDA lm :
                     "lat" \in DOMAIN lm /\ Get(lm, "similarity", 0) > 0)
      with_latitude == SelectSeq(matched_landmarks, LAMBDA lm : "latitude" \in DOMAIN lm)
      valid_landmarks ==
        IF with_lat # << >> THEN with_lat
        ELSE [k \in 1..Len(with_latitude) |-> NormalizeKeys(with_latitude[k])]
  IN IF valid_landmarks = << >> THEN NoAnchor
     ELSE FirstMax(valid_landmarks, LAMBDA lm : Get(lm, "similarity", 500000))

\* _get_primary_direction: the first direction word, then the first landmark
\* direction, that RELATIVE_DIRECTION_CONFIG has
get_primary_direction(address_components) ==
  LET directions == SelectSeq(address_components.directions, LAMBDA direction :
                       Lower(direction) \in DOMAIN RELATIVE_DIRECTION_CONFIG)
      landmarks == SelectSeq(address_components.landmarks, LAMBDA lm :
                       Lower(Get(lm, "direction", << >>))
                         \in DOMAIN RELATIVE_DIRECTION_CONFIG)
  IN IF directions # << >> THEN Lower(directions[1])
     ELSE IF landmarks # << >> THEN Lower(landmarks[1]["direction"])
     ELSE NoDirection

\* _calculate_offset without the lane contribution
lane_offset_ignored(address_components) == 0

\* lane_offset of _calculate_offset: int(number) of the first street number
\* times the multiplier, 0 when int() raises
lane_offset(address_components) ==
  LET street_numbers == address_components.street_info.street_numbers
  IN IF street_numbers # << >> /\ street_numbers[1].numeric
       THEN street_numbers[1].number * LANE_OFFSET_MULTIPLIER ELSE 0

\* the values random.uniform(a, b) is drawn from here: the ends and two between
Uniform(a, b) == {a, a + (b - a) \div 2, a + (b - a) \div 2 + 4, b}

\* the bearings _calculate_offset can compute for a direction
Bearings(direction) ==
  IF direction = NoDirection THEN {0, 275}
  ELSE LET config == RELATIVE_DIRECTION_CONFIG[direction]
           mode == config.bearing_mode
       IN IF mode = "random" THEN {0, 275}
          ELSE IF mode \in {"opposite", "backward"}
                 THEN { (config.base_bearing + d) % 360 : d \in {-30, 30} }
          ELSE IF mode = "perpendicular"
                 THEN { config.base_bearing, 360 - config.base_bearing }
          ELSE IF mode = "forward"
                 THEN { (config.base_bearing + d) % 360 : d \in {-20, 20} }
          ELSE { config.base_bearing }

\* the distances _calculate_offset can compute
Distances(direction, address_components) ==
  IF direction = NoDirection
    THEN { default_offset_m + lane_offset(address_components) }
    ELSE { base_distance + lane_offset(address_components) :
           base_distance \in Uniform(RELATIVE_DIRECTION_CONFIG[direction].min_offset_m,
                                     RELATIVE_DIRECTION_CONFIG[direction].max_offset_m) }

\* _calculate_confidence without the cap at 0.95
calculate_confidence_uncapped(anchor, direction, address_components) ==
  Get(anchor, "similarity", 500000)
    + (IF direction # NoDirection THEN 100000 ELSE 0)
    + (IF address_components.street_info.street_numbers # << >> THEN 50000 ELSE 0)
    + (IF address_components.street_info.building_numbers # << >> THEN 50000 ELSE 0)
    + (IF Len(address_components.landmarks) >= 2 THEN 50000 ELSE 0)

\* a confidence that starts from 0.5 whatever the similarity of the anchor
calculate_confidence_fixed_base(anchor, direction, address_components) ==
  Min(500000
        + (IF direction # NoDirection THEN 100000 ELSE 0)
        + (IF address_components.street_info.street_numbers # << >> THEN 50000 ELSE 0)
        + (IF address_components.street_info.building_numbers # << >> THEN 50000 ELSE 0)
        + (IF Len(address_components.landmarks) >= 2 THEN 50000 ELSE 0),
      950000)

\* _calculate_confidence
calculate_confidence(anchor, direction, address_components) ==
  Min(Get(anchor, "similarity", 500000)
        + (IF direction # NoDirection THEN 100000 ELSE 0)
        + (IF address_components.street_info.street_numbers # << >> THEN 50000 ELSE 0)
        + (IF address_components.street_info.building_numbers # << >> THEN 50000 ELSE 0)
        + (IF Len(address_components.landmarks) >= 2 THEN 50000 ELSE 0),
      950000)

\* LocationPredictor().predict(matched_landmarks, address_components) when
\* _calculate_offset computes bearing and distance and rounding the coordinates
\* moves the point by rounding centimetres away from the anchor
predict(matched_landmarks, address_components, bearing, distance, rounding) ==
  IF matched_landmarks = << >> THEN fallback_prediction
  ELSE LET anchor == select_anchor(matched_landmarks)
           direction == get_primary_direction(address_components)
       IN IF anchor = NoAnchor THEN fallback_prediction
          ELSE PredictionResult(
                 Max(0, distance + rounding),
                 calculate_confidence(anchor, direction, address_components),
                 anchor, direction, distance, bearing,
                 IF direction # NoDirection THEN "landmark_offset"
                 ELSE "landmark_direct")


(***************************************************************************)
(* LocationPredictor().predict as a call                                   *)
(***************************************************************************)
\* a match as the matcher gives it (lat, lng, similarity)
Match(lat, lng, similarity) ==
  [input_landmark |-> <<"c","s","t">>, matched_name |-> <<"C","S","T">>, lat |-> lat,
   lng |-> lng, similarity |-> similarity]

MatchRajwada == Match(227201, 758589, 870000)

MatchCST == Match(189398, 728355, 812300)

\* similarity 0.0, inside the range [0, 1] of a similarity
MatchZero == Match(189220, 728347, 0)

\* similarity 0.99, above the cap of the confidence
MatchNearExact == Match(227201, 758589, 990000)

\* a gazetteer row: latitude and longitude, no similarity
MatchRow ==
  [name |-> <<"C","S","T">>, latitude |-> 189398, longitude |-> 728355]

\* latitude and longitude with a similarity
MatchRowScored ==
  [name |-> <<"C","S","T">>, latitude |-> 189398, longitude |-> 728355,
   similarity |-> 900000]

\* no coordinates
MatchNoCoordinates == [matched_name |-> <<"C","S","T">>, similarity |-> 990000]

PredictMatches ==
  { << >>, << MatchRajwada >>, << MatchCST, MatchRajwada >>, << MatchZero >>,
    << MatchRow >>, << MatchRowScored >>, << MatchNoCoordinates >>,
    << MatchNoCoordinates, MatchCST >>, << MatchRajwada, MatchRowScored >>,
    << MatchZero, MatchRowScored >>, << MatchNearExact >> }

PredictDirections ==
  { << >>, << <<"N","e","a","r">> >>, << <<"n","o","r","t","h">>, <<"b","e","h","i","n","d">> >>,
    << <<"a","f","t","e","r">> >>, << <<"b","e","s","i","d","e">> >>, << <<"i","n"," ","f","r","o","n","t"," ","o","f">> >> }

\* no lane number, lane 3, a lane "3rd" that int() rejects
PredictStreetNumbers ==
  { << >>, << [number |-> 3, numeric |-> TRUE] >>, << [number |-> 0, numeric |-> FALSE] >> }

PredictBuildingNumbers == { << >>, << [number |-> 42] >> }

\* the extracted landmarks of the address: none, or two
PredictLandmarks ==
  { << >>,
    << [text |-> <<"S","h","i","v"," ","T","e","m","p","l","e">>, position |-> NoPosition],
       [text |-> <<"X","y","z"," ","A","b","c","d">>, position |-> "near"] >> }

PredictComponents ==
  { [directions |-> directions, landmarks |-> landmarks,
     street_info |-> [street_numbers |-> street_numbers,
                      building_numbers |-> building_numbers]] :
      directions \in PredictDirections, landmarks \in PredictLandmarks,
      street_numbers \in PredictStreetNumbers,
      building_numbers \in PredictBuildingNumbers }

\* LocationPredictor().predict(matched_landmarks, address_components)
PredictCall(matched_landmarks, address_components) ==
  /\ fn_pc = "idle"
  /\ fn_call' = [matched_landmarks |-> matched_landmarks,
                 address_components |-> address_components]
  /\ \E bearing \in Bearings(get_primary_direction(address_components)),
        distance \in Distances(get_primary_direction(address_components),
                               address_components),
        rounding \in {-CoordinateRounding, 0, CoordinateRounding} :
          fn_out' = << predict(matched_landmarks, address_components, bearing,
                               distance, rounding) >>
  /\ fn_pc' = "returned"
  /\ UNCHANGED notFnVars

NextPredict ==
  \/ /\ fn_pc = "idle"
     /\ \E matched_landmarks \in PredictMatches, address_components \in PredictComponents :
          PredictCall(matched_landmarks, address_components)
  \/ FnTaken

SpecPredict == InitFn /\ [][NextPredict]_vars

\* the match has coordinates, under the keys the predictor reads
HasCoordinates(lm) == "lat" \in DOMAIN lm \/ "latitude" \in DOMAIN lm

Coordinates(lm) ==
  IF "lat" \in DOMAIN lm THEN << lm["lat"], lm["lng"] >>
  ELSE << lm["latitude"], lm["longitude"] >>

\* the result is the fallback prediction
IsFallback(result) ==
  /\ result.method = "fallback"
  /\ result.confidence = 0
  /\ result.anchor_landmark = NoAnchor
  /\ result.direction_used = NoDirection
  /\ result.offset_applied_m = 0

\* C16: predict anchors on the match of highest similarity among the matches
\* with coordinates; with an empty list, or no match with coordinates, it
\* returns the fallback prediction (method fallback, confidence 0, no anchor, no
\* direction, offset 0)
C16_AnchorOrFallback ==
  fn_pc = "returned" =>
    LET matches == fn_call.matched_landmarks
        located == {k \in 1..Len(matches) : HasCoordinates(matches[k])}
    IN IF located = {} THEN IsFallback(fn_out[1])
       ELSE /\ fn_out[1].method # "fallback"
            /\ fn_out[1].anchor_landmark # NoAnchor
            /\ \E k \in located :
                 /\ Coordinates(matches[k]) = Coordinates(fn_out[1].anchor_landmark)
                 /\ \A j \in located :
                      Get(matches[k], "similarity", 0) >= Get(matches[j], "similarity", 0)


\* the prediction has an anchor with a similarity
Anchored(result) ==
  result.anchor_landmark # NoAnchor /\ "similarity" \in DOMAIN result.anchor_landmark

\* anchor similarity plus the bonuses of the claim, capped at 0.95
ClaimedConfidence(anchor, address_components) ==
  Min(950000,
      anchor["similarity"]
        + (IF \E k \in 1..Len(address_components.directions) :
                 Lower(address_components.directions[k]) \in DOMAIN RELATIVE_DIRECTION_CONFIG
             THEN 100000 ELSE 0)
        + (IF address_components.street_info.street_numbers # << >> THEN 50000 ELSE 0)
        + (IF address_components.street_info.building_numbers # << >> THEN 50000 ELSE 0)
        + (IF Len(address_components.landmarks) >= 2 THEN 50000 ELSE 0))

\* C17: the confidence of an anchored prediction is min(0.95, anchor similarity
\* + 0.10 for a recognised direction word + 0.05 for a lane number + 0.05 for a
\* building number + 0.05 for two or more extracted landmarks), so at most 0.95
C17_ConfidenceFormula ==
  (fn_pc = "returned" /\ Anchored(fn_out[1])) =>
    /\ fn_out[1].confidence
         = ClaimedConfidence(fn_out[1].anchor_landmark, fn_call.address_components)
    /\ fn_out[1].confidence <= 950000

\* C17, amended: the confidence reported is that value rounded to three places
C17_ConfidenceFormulaRounded ==
  (fn_pc = "returned" /\ Anchored(fn_out[1])) =>
    /\ fn_out[1].confidence
         = round3(ClaimedConfidence(fn_out[1].anchor_landmark,
                                    fn_call.address_components))
    /\ fn_out[1].confidence <= 950000

\* similarity 0.87 with a direction word, a lane and a building number and two
\* landmarks: the sum 1.12 is cut to 0.95
C17_Witness ==
  /\ fn_pc = "returned"
  /\ Anchored(fn_out[1])
  /\ fn_out[1].anchor_landmark["similarity"] = 870000
  /\ fn_out[1].method = "landmark_offset"
  /\ fn_call.address_components.street_info.street_numbers # << >>
  /\ fn_call.address_components.street_info.building_numbers # << >>
  /\ Len(fn_call.address_components.landmarks) >= 2
  /\ fn_out[1].confidence = 950000

\* the lane number of the call: the first street number when it is a number
LaneNumber(address_components) ==
  IF address_components.street_info.street_numbers # << >>
       /\ address_components.street_info.street_numbers[1].numeric
    THEN address_components.street_info.street_numbers[1].number ELSE 0

\* the offset is the lane's 15 m per number above a distance of the direction's range
OffsetInRange(result, address_components) ==
  LET config == RELATIVE_DIRECTION_CONFIG[result.direction_used]
      base_distance == result.offset_applied_m - LaneNumber(address_components) * 1500
  IN config.min_offset_m <= base_distance /\ base_distance <= config.max_offset_m

NearNoLane(result, address_components) ==
  /\ result.direction_used = <<"n","e","a","r">>
  /\ address_components.street_info.street_numbers = << >>

C19_LevelOfReportedScore ==
  (s_pc = "returned" /\ s_call.scorer = "component" /\ ~s_out.raised) =>
    s_out.level = (IF s_out.score >= 800000 THEN "HIGH"
                   ELSE IF s_out.score >= 600000 THEN "MEDIUM"
                   ELSE IF s_out.score >= 400000 THEN "LOW"
                   ELSE "VERY_LOW")


\* the city of the address is one of the cities of its pincode's region
RegionAgrees(normalized) ==
  /\ Truthy(normalized.pincode)
  /\ normalized.city # PyNone
  /\ normalized.pincode[1] \in DOMAIN region_city_map
  /\ Lower(normalized.city) \in region_city_map[normalized.pincode[1]]

\* the city of the address is a city of another region than its pincode's
RegionConflicts(normalized) ==
  /\ Truthy(normalized.pincode)
  /\ Truthy(normalized.city)
  /\ Lower(normalized.city) \in AllRegionCities
  /\ ~RegionAgrees(normalized)

\* the adjustments hold key with amount
Adjusted(adjustments, key, amount) ==
  key \in DOMAIN adjustments /\ adjustments[key] = amount

\* C20: the adjustments of the source-based scorer hold +0.08 exactly when the
\* pincode's region agrees with the city, -0.15 exactly when they conflict,
\* +0.05 exactly when there are two or more landmarks, and +0.05 exactly when the
\* address has a building number
C20_AdjustmentsWhenConditions ==
  (s_pc = "returned" /\ s_call.scorer = "source" /\ ~s_out.raised) =>
    /\ Adjusted(s_out.adjustments, "pincode_city_match", 80000)
         <=> RegionAgrees(s_call.normalized)
    /\ Adjusted(s_out.adjustments, "conflicting_signals", -150000)
         <=> RegionConflicts(s_call.normalized)
    /\ Adjusted(s_out.adjustments, "multiple_landmarks", 50000)
         <=> Len(s_call.landmarks) >= 2
    /\ Adjusted(s_out.adjustments, "has_building_number", 50000)
         <=> has_building_number(s_call.normalized.original)

(***************************************************************************)
(* Calls of AddressNormalizer().normalize                                  *)
(***************************************************************************)
NormalizeHeads ==
  { <<"n","r"," ","s","t","n">>,
    <<"o","p","p"," ","m","a","n","d","i","r">>,
    <<"R","d">>,
    <<"1","2"," ","m","g"," ","r","d">>,
    <<"b","o","m","b","a","y">>,
    <<"h",".","n","o","."," ","5">> }

NormalizeSeparators ==
  { <<","," ">>,
    <<" ">>,
    <<",",";">>,
    <<" ","-"," ">>,
    <<"-","-">> }

NormalizeTails ==
  { <<>>,
    <<"4","0","0","0","6","9">>,
    <<"4","0","0"," ","0","6","9">>,
    <<"0","1","2","3","4","5">>,
    <<"p","u","n","e"," ","4","1","1","-","-","0","0","1">>,
    <<"m","h">> }

NormalizeAddresses ==
  { head \o separator \o tail :
      head \in NormalizeHeads, separator \in NormalizeSeparators, tail \in NormalizeTails }
    \cup RawAddresses

\* AddressNormalizer().normalize(address)
NormalizeCall(address) ==
  /\ fn_pc = "idle"
  /\ fn_call' = address
  /\ fn_out' = << normalize(address) >>
  /\ fn_pc' = "returned"
  /\ UNCHANGED notFnVars

NextNormalize ==
  \/ fn_pc = "idle" /\ \E address \in NormalizeAddresses : NormalizeCall(address)
  \/ FnTaken

SpecNormalize == InitFn /\ [][NextNormalize]_vars

\* the six digits stand in the text, together or split 3 + 3 by one space or hyphen
PincodeDigitsIn(text, pincode) ==
  \E i \in 1..Len(text) :
    \/ SubSeq(text, i, i + 5) = pincode
    \/ /\ i + 6 <= Len(text)
       /\ text[i + 3] \in {" ", "-"}
       /\ SubSeq(text, i, i + 2) \o SubSeq(text, i + 4, i + 6) = pincode

C22_Idempotent ==
  fn_pc = "returned" => normalize(fn_out[1].text).text = fn_out[1].text

(***************************************************************************)
(* The hint and the text in the city and state tiers; the pincode the      *)
(* pincode tiers accept                                                    *)
(***************************************************************************)
\* the name is one _geocode_by_city resolves
KnownCity(name) == name # << >> /\ geocode_by_city(name) # NoneResult

\* the code is one _geocode_by_state resolves
KnownState(code) == code # << >> /\ geocode_by_state(code) # NoneResult

\* the pincode tiers gave no result for the request
PincodeMiss(req) == ~PincodeExactHit(req) /\ ~PincodePrefixHit(req)

\* C23: when the pincode tiers give nothing, the city tier answers whenever the
\* city hint or the city detected in the text is a known city, and otherwise the
\* state tier answers whenever the state hint or the state detected in the text
\* is a known state: a hint that does not resolve does not hide the detected value
C23_HintOrDetected ==
  (GeoDone /\ PincodeMiss(g_req)) =>
    LET city_known == \/ KnownCity(g_req.city_hint)
                      \/ KnownCity(extract_city_from_text(g_req.normalized_text))
        state_known == \/ KnownState(g_req.state_hint)
                       \/ KnownState(extract_state_from_text(g_req.normalized_text))
    IN /\ city_known => g_out.source = "city"
       /\ (~city_known /\ state_known) => g_out.source = "state"

\* C24: a result of source "pincode" or "pincode_prefix" is returned only for a
\* pincode of exactly six digits whose first digit is 1-9
C24_PincodeTierOnlyWellFormed ==
  (GeoDone /\ g_out.source \in {"pincode", "pincode_prefix"}) =>
    MatchesPincodePattern(g_req.pincode)

(***************************************************************************)
(* The source-based scorer on addresses with one kind of component         *)
(***************************************************************************)
\* a source-based score call has returned (a score or an exception)
SourceScored == s_pc = "returned" /\ s_call.scorer = "source"

\* C25: the score of an address with a valid pincode, no city and no state, for
\* source "pincode" and no landmarks, is strictly greater than the score of an
\* address with no pincode, city or state for source "country_fallback"
C25_PincodeRaisesScore ==
  ( /\ SourceScored
    /\ s_call.source = "pincode"
    /\ s_call.landmarks = << >>
    /\ validate_pincode(s_call.normalized.pincode)
    /\ s_call.normalized.city = PyNone
    /\ s_call.normalized.state = PyNone ) =>
      /\ ~s_out.raised
      /\ \A original \in ScorerOriginals :
           s_out.score > source_score(Normalized(PyNone, PyNone, PyNone, original),
                                      << >>, "country_fallback").score

\* C26: an address with a major city and a 2-letter state code, without pincode
\* and landmarks, scored for source "city", gets level "medium" or "high"
C26_CityStateAtLeastMedium ==
  ( /\ SourceScored
    /\ s_call.source = "city"
    /\ s_call.landmarks = << >>
    /\ s_call.normalized.pincode = PyNone
    /\ s_call.normalized.city # PyNone
    /\ Lower(s_call.normalized.city) \in get_major_cities
    /\ s_call.normalized.state # PyNone
    /\ Len(s_call.normalized.state) = 2 /\ IsAlphaStr(s_call.normalized.state) ) =>
      /\ ~s_out.raised
      /\ s_out.level \in {"medium", "high"}

(***************************************************************************)
(* The predictor's confidence against the similarity of its anchor         *)
(***************************************************************************)
\* C27: the confidence of an anchored prediction is at least the similarity of
\* its anchor, for every similarity in [0, 1] and every combination of
\* direction, lane and building information
C27_ConfidenceAtLeastSimilarity ==
  (fn_pc = "returned" /\ Anchored(fn_out[1])) =>
    fn_out[1].confidence >= fn_out[1].anchor_landmark["similarity"]

\* C27, amended: the confidence is at least the similarity capped at 0.95 and
\* rounded to three places
C27_ConfidenceAtLeastCappedSimilarity ==
  (fn_pc = "returned" /\ Anchored(fn_out[1])) =>
    fn_out[1].confidence >= round3(Min(950000, fn_out[1].anchor_landmark["similarity"]))

\* an anchor of similarity 0.99 with a direction word: the confidence is 0.95
C27_Witness ==
  /\ fn_pc = "returned"
  /\ Anchored(fn_out[1])
  /\ fn_out[1].anchor_landmark["similarity"] = 990000
  /\ fn_out[1].method = "landmark_offset"
  /\ fn_out[1].confidence = 950000

(***************************************************************************)
(* The list extract returns against the candidates it was made from        *)
(***************************************************************************)
\* the candidates of a text: pattern matches, then positional references
Candidates(text) ==
  IF text = << >> THEN << >>
  ELSE Value({ extract_by_patterns(text_lower, text)
                 \o extract_positional_context(text_lower, text) :
               text_lower \in {Lower(text)} })

\* the spans share a character
Overlap(a, b) == a.span[1] < b.span[2] /\ a.span[2] > b.span[1]

\* two candidates of which _deduplicate keeps at most one
Conflict(a, b) == Overlap(a, b) \/ Lower(a.normalized) = Lower(b.normalized)

\* the elements of a list
Range(list) == { list[k] : k \in 1..Len(list) }

\* no overlapping spans, no repeated normalized text, no confidence below 0.5
Deduplicated(landmarks) ==
  /\ \A i, j \in 1..Len(landmarks) :
        i # j => /\ ~Overlap(landmarks[i], landmarks[j])
                 /\ Lower(landmarks[i].normalized) # Lower(landmarks[j].normalized)
  /\ \A i \in 1..Len(landmarks) : landmarks[i].confidence >= 500000

PipelineDirections ==
  { << >>, << <<"N","e","a","r">> >>, << <<"n","o","r","t","h">>, <<"b","e","h","i","n","d">> >>,
    << <<"a","f","t","e","r">> >>, << <<"b","e","s","i","d","e">> >> }

PipelineComponents ==
  { [directions |-> directions, landmarks |-> landmarks,
     street_info |-> [street_numbers |-> street_numbers,
                      building_numbers |-> building_numbers]] :
      directions \in PipelineDirections, landmarks \in PredictLandmarks,
      street_numbers \in PredictStreetNumbers,
      building_numbers \in PredictBuildingNumbers }

\* no match, a match without coordinates, matches with coordinates
PipelineMatches ==
  { << >>, << MatchNoCoordinates >>, << MatchRajwada >>, << MatchNearExact >> }

PipelineNlpConfidences == {0, 500000, 800000, 1000000}

PipelineDensityScores == {0, 700000, 1000000}

\* steps 4 and 5: landmark_scores and geo_features from the prediction, the
\* component scorer, the response
pipeline_response(matched_landmarks, address_components, predicted_coords, nlp_confidence, density_score) ==
  LET landmark_scores ==
        [k \in 1..Len(matched_landmarks) |-> Get(matched_landmarks[k], "similarity", 500000)]
      geo_features ==
        [has_distance |-> TRUE,
         distance_m |-> predicted_coords.offset_applied_m \div 100,
         directions |-> Len(address_components.directions),
         landmarks |-> Len(address_components.landmarks),
         street_numbers |-> Len(address_components.street_info.street_numbers),
         building_numbers |-> Len(address_components.street_info.building_numbers)]
      confidence == component_score(nlp_confidence, landmark_scores, geo_features,
                                    density_score)
  IN [matched_landmarks |-> matched_landmarks,
      predicted_coordinates |-> [moved_cm |-> predicted_coords.moved_cm,
                                 anchor_landmark |-> predicted_coords.anchor_landmark,
                                 method |-> predicted_coords.method],
      confidence |-> [score |-> confidence.score, final |-> confidence.final,
                      level |-> confidence.level]]

\* AddressPipeline.process(raw_address, city, nlp_confidence, density_score),
\* steps 3 to 5
PipelineProcessCall(matched_landmarks, address_components, nlp_confidence, density_score) ==
  /\ fn_pc = "idle"
  /\ fn_call' = [matched_landmarks |-> matched_landmarks,
                 address_components |-> address_components,
                 nlp_confidence |-> nlp_confidence, density_score |-> density_score]
  /\ \E bearing \in Bearings(get_primary_direction(address_components)),
        distance \in Distances(get_primary_direction(address_components),
                               address_components),
        rounding \in {-CoordinateRounding, 0, CoordinateRounding} :
       \E r \in { pipeline_response(matched_landmarks, address_components,
                                    predict(matched_landmarks, address_components,
                                            bearing, distance, rounding),
                                    nlp_confidence, density_score) } :
         \E f \in float_neighbours(r.confidence.final) :
           fn_out' = << [r EXCEPT !.confidence.level = get_confidence_level(f)] >>
  /\ fn_pc' = "returned"
  /\ UNCHANGED notFnVars

NextPipeline ==
  \/ /\ fn_pc = "idle"
     /\ \E matched_landmarks \in PipelineMatches, address_components \in PipelineComponents,
           nlp_confidence \in PipelineNlpConfidences,
           density_score \in PipelineDensityScores :
          PipelineProcessCall(matched_landmarks, address_components, nlp_confidence,
                              density_score)
  \/ FnTaken

SpecPipeline == InitFn /\ [][NextPipeline]_vars

\* C29: a response whose prediction is the fallback (no matched landmark, no
\* anchor) reports the level LOW or VERY_LOW, whatever nlp_confidence,
\* density_score and the extracted components are
C29_FallbackNeverMediumOrHigh ==
  ( /\ fn_pc = "returned"
    /\ fn_out[1].predicted_coordinates.method = "fallback"
    /\ fn_out[1].matched_landmarks = << >> ) =>
      fn_out[1].confidence.level \in {"LOW", "VERY_LOW"}

(***************************************************************************)
(* A DataLoader used by one thread: the calls of thread 1 run one after    *)
(* the other, and landmarks.csv can be replaced between two calls.         *)
(***************************************************************************)
\* landmarks.csv is replaced while no call is in progress
landmarks_file_replaced(file) ==
  /\ dl_t[1].pc = "idle"
  /\ file # dl_file
  /\ dl_file' = file
  /\ UNCHANGED << dl_cache, dl_by_city, dl_by_type, dl_t, notLoaderVars >>

NextLoaderSingle ==
  \/ \E reload \in BOOLEAN : call_get_landmarks(1, reload)
  \/ \E city \in LoaderCities : call_get_landmarks_by_city(1, city)
  \/ \E ltype \in LoaderTypes : call_get_landmarks_by_type(1, ltype)
  \/ call_clear_cache(1)
  \/ get_landmarks_check(1)
  \/ get_landmarks_return(1)
  \/ load_landmarks_reset_cache(1)
  \/ load_landmarks_reset_by_city(1)
  \/ load_landmarks_reset_by_type(1)
  \/ load_landmarks_open(1)
  \/ load_landmarks_next_row(1)
  \/ load_landmarks_append(1)
  \/ load_landmarks_index_city(1)
  \/ load_landmarks_index_type(1)
  \/ get_landmarks_by_city_check(1)
  \/ get_landmarks_by_city_return(1)
  \/ get_landmarks_by_type_check(1)
  \/ get_landmarks_by_type_return(1)
  \/ clear_cache_landmarks(1)
  \/ clear_cache_by_city(1)
  \/ clear_cache_by_type(1)
  \/ LoaderTaken(1)
  \/ \E file \in LandmarkFiles : landmarks_file_replaced(file)

SpecLoaderSingle == InitLoader /\ [][NextLoaderSingle]_vars

\* no call of thread 1 is in progress
BetweenCalls == dl_t[1].pc \in {"idle", "done"}

\* the index holds, under each key, the cached landmarks with that key, in
\* order, and has no other key
IndexOf(index, landmarks, Key(_)) ==
  /\ DOMAIN index = { Key(landmarks[k]) : k \in 1..Len(landmarks) }
  /\ \A key \in DOMAIN index :
       /\ key = Lower(key)
       /\ index[key] = SelectSeq(landmarks, LAMBDA lm : Key(lm) = key)

CityOf(lm) == lm.city

TypeOf(lm) == lm.type

\* C30: between the calls of a single-threaded DataLoader, whenever the cache is
\* loaded the by-city and by-type indexes hold exactly the cached landmarks,
\* each once under its lower-cased city and type; and when a reload has returned,
\* the cache holds the landmarks of the file as it is now and nothing else
C30_IndexesMatchCache ==
  (BetweenCalls /\ ~dl_cache.none) =>
    /\ IndexOf(dl_by_city, dl_cache.list, CityOf)
    /\ IndexOf(dl_by_type, dl_cache.list, TypeOf)
    /\ (dl_t[1].pc = "done" /\ dl_t[1].op = "get_landmarks" /\ dl_t[1].reload) =>
         (dl_cache.list = CompleteLandmarks /\ dl_t[1].obs = CompleteLandmarks)

\* a reload has returned two landmarks of one city
C30_Witness ==
  /\ dl_t[1].pc = "done" /\ dl_t[1].op = "get_landmarks" /\ dl_t[1].reload
  /\ Len(dl_cache.list) = 2
  /\ <<"m","u","m","b","a","i">> \in DOMAIN dl_by_city
  /\ Len(dl_by_city[<<"m","u","m","b","a","i">>]) = 2

==============================================================================
